---- MODULE Spec2Model ----
(***************************************************************************)
(* Verification model of the options analytics engine of trend_analysis:   *)
(* the sliding-window RateLimiter (services/futu_service.py and            *)
(* routers/data_trigger.py), the primary/fallback orchestrator             *)
(* (services/options_data_service.py), the OI history cache                *)
(* (compute_delta_oi in services/futu_service.py), the fetch cycle of      *)
(* FutuService.get_option_iv_data with its retry helper, the ATM selection *)
(* of an expiry, the IV term structure and the OI buckets of both          *)
(* providers, and the batch-update session of routers/data_trigger.py.     *)
(***************************************************************************)
EXTENDS Integers, Sequences, FiniteSets, TLC

(***************************************************************************)
(* Bounds of the model.                                                    *)
(***************************************************************************)
NumTasks == 2        \* tasks of the event loop sharing one RateLimiter
MaxCallsL == 2       \* max_calls / max_requests_per_minute of the instance
PeriodL == 3         \* period_seconds of the instance, in clock ticks

NumPosTasks == 2     \* concurrent calculate_positioning_score calls
MaxDay == 8          \* calendar days 0..MaxDay of SpecOI
DaysPerMonth == 4    \* length of a month of the model's calendar
MaxPosCalls == 2     \* calls of calculate_positioning_score in one run of SpecOI
MaxStreakDay == 9    \* calendar days 0..MaxStreakDay of SpecDaily

\* the 0.1 s safety margin added to every sleep, as one clock tick
SleepBuffer == 1

NoTask == 0
LTasks == 1..NumTasks

VARIABLES
    \* ---- RateLimiter ----
    lockKind,     \* "threading" (futu_service.RateLimiter._lock) or
                  \* "asyncio" (data_trigger.RateLimiter._lock)
    calls,        \* self.calls / self._request_times, as ages (now - t), oldest first
    lockHolder,   \* task holding self._lock, or NoTask
    lockQueue,    \* asyncio.Lock waiters, FIFO
    loopBlocked,  \* the event-loop thread is stuck in threading.Lock.acquire()
    lpc,          \* position of every task in acquire()
    sleepLeft,    \* remaining time of the task's asyncio.sleep
    hist,         \* ages of the timestamps recorded by completed acquire() calls
    slept,        \* the task's current acquire() went through the sleep
    \* ---- OptionsDataService ----
    oCfg,         \* primary, fallback, auto_fallback and the enabled flags
    oPc,          \* "idle", "loop" (inside the for loop) or "done"
    oFn,          \* "try" (_try_with_fallback) or "snapshot" (get_market_snapshot)
    oMethod,      \* method_name
    oArgs,        \* the arguments of the call
    oSources,     \* the local list `sources`
    oIdx,         \* position of the for loop in `sources`
    oInvoked,     \* capability methods invoked so far, in order
    oPrimary,     \* what became of the first entry of `sources`
    oReturned,    \* what the invoked methods returned, in order
    oLastError,   \* last_error
    oResult,      \* the value returned to the caller
    oRaised,      \* an exception left the orchestrator
    \* ---- OI history cache ----
    today,        \* the calendar day datetime.now() falls on (day number)
    cacheFile,    \* content of oi_cache.json: symbol -> (date string -> OI)
    running,      \* task the event loop is executing between two awaits, or NoTask
    ppc,          \* position of every task in calculate_positioning_score
    pSym,         \* symbol
    pCur,         \* total_oi / current_oi
    pLocal,       \* the local dict `cache` of compute_delta_oi
    pSeen,        \* symbol_cache as loaded
    pDay,         \* the day the call read from datetime.now()
    pRet,         \* (current_oi, delta_oi) returned by compute_delta_oi
    pOverlap,     \* another call was in flight when this one ran compute_delta_oi
    numCalls,     \* calls of calculate_positioning_score so far
    streak,       \* per symbol: consecutive days, ending with the last write, with a write
    lastWrite,    \* day of the last save_oi_cache, -1 before the first
    \* ---- FutuService.get_option_iv_data: the fetch cycle ----
    fpc,          \* position of the coroutine in get_option_iv_data
    fWindowStart, \* window_start, in days after today
    fAttempt,     \* attempt of _fetch_option_chain_with_retry
    fRet,         \* (ret, data) of the last self._context.get_option_chain call
    fWinCalls,    \* provider calls made by the current _fetch_option_chain_with_retry
    fSlept,       \* seconds slept by the retry helper since its last provider call
    fCodes,       \* len(all_codes): contracts gathered into `expirations`
    fIdx,         \* idx of the snapshot loop
    fSnapRows,    \* len(snapshot_map)
    fChainCalls,  \* self._context.get_option_chain calls issued so far
    fChainStamps, \* timestamps recorded by self._chain_limiter
    fSnapCalls,   \* self._context.get_market_snapshot calls issued so far
    fSnapStamps,  \* timestamps recorded by self._snapshot_limiter
    fResult,      \* "pending", "none" (return None) or "select" (went on to line 642)
    fRaised,      \* a provider call raised and the handler of line 735 ran
    fOkRows,      \* rows of the chain responses with ret == RET_OK so far
    fFailed,      \* windows and chunks whose (last) call came back with ret != RET_OK
    fBatched,     \* identifiers handed to get_market_snapshot so far
    fWindows,     \* the (window_start, window_end) pairs asked of the provider
    \* ---- ATM selection of one expiry ----
    aContracts,   \* contracts of the expiry, each with its row of snapshot_map
    aPrice,       \* underlying_price
    apc,          \* "input" or "done"
    aChosen,      \* chosen_iv
    aFallback,    \* the strike loop of lines 669-681 was entered
    \* ---- term structure ----
    tPoints,      \* dte_points before the sort (for IBKR: the IV of every expiry)
    tpc,          \* "input" or "done"
    tOp,          \* what was applied: "interpolate", "variance", "futu" or "ibkr"
    tTarget,      \* target_day
    tArgs,        \* positions in tPoints of lower and upper given to _variance_interpolation
    tOut,         \* value returned by _interpolate_iv or _variance_interpolation
    tResult,      \* value returned by get_option_iv_data
    \* ---- OI buckets ----
    bOptions,     \* options, the list returned by get_option_chain
    bpc,          \* "input", or the provider whose method ran: "futu", "ibkr"
    bResult,      \* value returned by calculate_positioning_score
    \* ---- repeated compute_delta_oi calls ----
    iCalls,       \* the last two completed compute_delta_oi calls, oldest first
    \* ---- batch-update session ----
    sStatus,      \* session.status
    sTotal,       \* session.total = len(symbols)
    sSources,     \* len(sources)
    sCompleted,   \* session.completed
    sErrors,      \* len(session.errors)
    spc,          \* position of batch_update_task
    sIdx,         \* i of `for i, symbol in enumerate(symbols)`
    sSrc,         \* index of `for source in sources`
    sFetched,     \* symbols (by index) a fetch was started for
    sLate,        \* symbols a fetch was started for after the cancellation
    sCancelIdx,   \* i when cancel_batch_update cancelled the session, or -1
    sCancelCalls  \* calls of cancel_batch_update so far

limVars == <<lockKind, calls, lockHolder, lockQueue, loopBlocked, lpc,
             sleepLeft, hist, slept>>

orchVars == <<oCfg, oPc, oFn, oMethod, oArgs, oSources, oIdx, oInvoked,
              oPrimary, oReturned, oLastError, oResult, oRaised>>

oiVars == <<today, cacheFile, running, ppc, pSym, pCur, pLocal, pSeen, pDay,
            pRet, pOverlap, numCalls, streak, lastWrite>>

fetchVars == <<fpc, fWindowStart, fAttempt, fRet, fWinCalls, fSlept, fCodes,
               fIdx, fSnapRows, fChainCalls, fChainStamps, fSnapCalls,
               fSnapStamps, fResult, fRaised, fOkRows, fFailed, fBatched,
               fWindows>>

atmVars == <<aContracts, aPrice, apc, aChosen, aFallback>>

termVars == <<tPoints, tpc, tOp, tTarget, tArgs, tOut, tResult>>

bucketVars == <<bOptions, bpc, bResult>>

idemVars == <<iCalls>>

batchVars == <<sStatus, sTotal, sSources, sCompleted, sErrors, spc, sIdx, sSrc,
               sFetched, sLate, sCancelIdx, sCancelCalls>>

ivVars == <<fetchVars, atmVars, termVars, bucketVars, idemVars, batchVars>>

vars == <<limVars, orchVars, oiVars, ivVars>>

(***************************************************************************)
(* RateLimiter.acquire                                                     *)
(***************************************************************************)
RECURSIVE Clean(_)
\* [t for t in self.calls if now - t < self.period_seconds], on the ages
\* now - t at the instant `now` is read
Clean(s) ==
    IF s = <<>> THEN <<>>
    ELSE IF Head(s) < PeriodL
         THEN <<Head(s)>> \o Clean(Tail(s))
         ELSE Clean(Tail(s))

IsFullOff(n) == n > MaxCallsL
\* len(self.calls) >= self.max_calls
IsFull(n) == n >= MaxCallsL

\* self.period_seconds - (now - self.calls[0]) + 0.1
SleepSeconds(oldestAge) == PeriodL - oldestAge + SleepBuffer

\* self.calls.append(time.time()) / self._request_times.append(now): the
\* timestamp recorded is the current instant (age 0); the lock is released
RecordAndRelease(t, cleaned) ==
    /\ calls' = Append(cleaned, 0)
    /\ hist' = Append(hist, 0)
    /\ lockHolder' = NoTask
    /\ lpc' = [lpc EXCEPT ![t] = "done"]

\* body of acquire() from the point where the lock is held up to the first
\* suspension point: the sleep when the window is full, the return otherwise
EnterLocked(t) ==
    LET cleaned == Clean(calls) IN
    IF IsFull(Len(cleaned)) /\ SleepSeconds(cleaned[1]) > 0
    THEN /\ calls' = cleaned
         /\ lockHolder' = t
         /\ lpc' = [lpc EXCEPT ![t] = "sleeping"]
         /\ sleepLeft' = [sleepLeft EXCEPT ![t] = SleepSeconds(cleaned[1])]
         /\ slept' = [slept EXCEPT ![t] = TRUE]
         /\ UNCHANGED hist
    ELSE /\ RecordAndRelease(t, cleaned)
         /\ slept' = [slept EXCEPT ![t] = FALSE]
         /\ UNCHANGED sleepLeft

\* a task calls acquire(): `with self._lock` / `async with self._lock`
LAcquire(t) ==
    /\ ~loopBlocked
    /\ lpc[t] = "idle"
    /\ IF lockHolder = NoTask /\ lockQueue = <<>>
       THEN /\ EnterLocked(t)
            /\ UNCHANGED <<lockQueue, loopBlocked>>
       ELSE IF lockKind = "threading"
            THEN \* threading.Lock.acquire() blocks the calling thread,
                 \* which is the thread of the event loop
                 /\ loopBlocked' = TRUE
                 /\ lpc' = [lpc EXCEPT ![t] = "blocked"]
                 /\ UNCHANGED <<calls, lockHolder, lockQueue, sleepLeft, hist, slept>>
            ELSE \* asyncio.Lock.acquire() suspends the task in FIFO order
                 /\ lockQueue' = Append(lockQueue, t)
                 /\ lpc' = [lpc EXCEPT ![t] = "waiting"]
                 /\ UNCHANGED <<calls, lockHolder, loopBlocked, sleepLeft, hist, slept>>
    /\ UNCHANGED lockKind

\* a task woken by asyncio.Lock.release() resumes with the lock held
LGranted(t) ==
    /\ ~loopBlocked
    /\ lpc[t] = "waiting"
    /\ lockHolder = NoTask
    /\ lockQueue # <<>> /\ Head(lockQueue) = t
    /\ lockQueue' = Tail(lockQueue)
    /\ EnterLocked(t)
    /\ UNCHANGED <<lockKind, loopBlocked>>

\* asyncio.sleep returns: now = time.time(), clean again, append, return
LWake(t) ==
    /\ ~loopBlocked
    /\ lpc[t] = "sleeping"
    /\ sleepLeft[t] = 0
    /\ RecordAndRelease(t, Clean(calls))
    /\ UNCHANGED <<lockKind, lockQueue, loopBlocked, sleepLeft, slept>>

\* the caller goes on and may call acquire() again later
LReturn(t) ==
    /\ ~loopBlocked
    /\ lpc[t] = "done"
    /\ lpc' = [lpc EXCEPT ![t] = "idle"]
    /\ UNCHANGED <<lockKind, calls, lockHolder, lockQueue, loopBlocked,
                   sleepLeft, hist, slept>>

Older(a) == IF a < PeriodL THEN a + 1 ELSE a

\* the completion history is kept for two periods, so that it spans every
\* window of PeriodL ticks that contains a recent completion
HistSpan == 2 * PeriodL

RECURSIVE DropOld(_)
\* completions older than HistSpan are forgotten
DropOld(s) ==
    IF s = <<>> THEN <<>>
    ELSE IF Head(s) + 1 < HistSpan THEN <<Head(s) + 1>> \o DropOld(Tail(s))
         ELSE DropOld(Tail(s))

\* one tick of time.time(): every recorded timestamp gets one tick older
LTick ==
    /\ calls' = [i \in 1..Len(calls) |-> Older(calls[i])]
    /\ hist' = DropOld(hist)
    /\ sleepLeft' = [t \in LTasks |-> IF sleepLeft[t] > 0 THEN sleepLeft[t] - 1 ELSE 0]
    /\ UNCHANGED <<lockKind, lockHolder, lockQueue, loopBlocked, lpc, slept>>

LimInit ==
    /\ lockKind \in {"threading", "asyncio"}
    /\ calls = <<>>
    /\ lockHolder = NoTask
    /\ lockQueue = <<>>
    /\ loopBlocked = FALSE
    /\ lpc = [t \in LTasks |-> "idle"]
    /\ sleepLeft = [t \in LTasks |-> 0]
    /\ hist = <<>>
    /\ slept = [t \in LTasks |-> FALSE]

LimIdle ==
    /\ lockKind = "threading"
    /\ calls = <<>>
    /\ lockHolder = NoTask
    /\ lockQueue = <<>>
    /\ loopBlocked = FALSE
    /\ lpc = [t \in LTasks |-> "idle"]
    /\ sleepLeft = [t \in LTasks |-> 0]
    /\ hist = <<>>
    /\ slept = [t \in LTasks |-> FALSE]

(***************************************************************************)
(* OptionsDataService: _try_with_fallback and get_market_snapshot          *)
(***************************************************************************)
\* the values a call can return: None, an empty list, or a non-empty result
\* (tagged with the provider, the method and the arguments it served)
NoneVal == [kind |-> "None", by |-> "-", method |-> "-", args |-> "-"]
EmptyList == [kind |-> "empty", by |-> "-", method |-> "-", args |-> "-"]
Data(src, m, a) == [kind |-> "data", by |-> src, method |-> m, args |-> a]
NoError == "None"

SourceLabels == {"ibkr", "futu", "other"}
Methods == {"get_option_chain", "get_option_iv_data",
            "calculate_positioning_score", "calculate_term_score"}
Symbols == {"SPY", "AAPL"}

IsSourceEnabledDefaultTrue(cfg, source) ==
    IF source = "ibkr" THEN cfg.ibkr_enabled
    ELSE IF source = "futu" THEN cfg.futu_enabled
    ELSE TRUE
\* OptionsDataService._is_source_enabled
IsSourceEnabled(cfg, source) ==
    IF source = "ibkr" THEN cfg.ibkr_enabled
    ELSE IF source = "futu" THEN cfg.futu_enabled
    ELSE FALSE

SourcesAlwaysBoth(cfg) == <<cfg.primary, cfg.fallback>>
\* sources = [primary]; if auto_fallback: sources.append(fallback)
Sources(cfg) ==
    <<cfg.primary>> \o (IF cfg.auto_fallback THEN <<cfg.fallback>> ELSE <<>>)

\* the services that define the method (IBKRService has no get_market_snapshot)
HasMethod(source, m) == ~(source = "ibkr" /\ m = "get_market_snapshot")

CatchesCallOnly(fn, stage) == stage = "call"
\* the statements of one loop iteration covered by `try ... except Exception`:
\* the provider lookup, the attribute lookup and the awaited call
Catches(fn, stage) == stage \in {"lookup", "attr", "call"}

\* `result is not None` in _try_with_fallback, `if result:` in get_market_snapshot
Accepts(fn, r) == IF fn = "try" THEN r # NoneVal ELSE r # NoneVal /\ r # EmptyList

\* what one provider does when asked: the lookup of the service raises, the
\* method raises, or it returns None, an empty list or data
Outcomes == {"lookup_raise", "raise", "none", "empty", "data"}

\* the methods that return a list, which may be empty (get_option_chain
\* returns all_options even when no expiry produced a row)
ReturnsList(m) == m \in {"get_option_chain", "get_market_snapshot"}

OrchInitVals ==
    /\ oPc = "idle"
    /\ oFn = "try"
    /\ oMethod = "get_option_chain"
    /\ oArgs = "SPY"
    /\ oSources = <<>>
    /\ oIdx = 1
    /\ oInvoked = <<>>
    /\ oPrimary = "pending"
    /\ oReturned = <<>>
    /\ oLastError = NoError
    /\ oResult = NoneVal
    /\ oRaised = FALSE

OrchInit ==
    /\ oCfg \in [primary : SourceLabels, fallback : SourceLabels,
                 auto_fallback : BOOLEAN, ibkr_enabled : BOOLEAN,
                 futu_enabled : BOOLEAN]
    /\ OrchInitVals

OrchIdle ==
    /\ oCfg = [primary |-> "futu", fallback |-> "ibkr", auto_fallback |-> TRUE,
               ibkr_enabled |-> TRUE, futu_enabled |-> TRUE]
    /\ OrchInitVals

\* entry of _try_with_fallback(method_name, *args) or get_market_snapshot(symbols)
OrchStart(fn, m, a) ==
    /\ oPc = "idle"
    /\ (fn = "snapshot") = (m = "get_market_snapshot")
    /\ oPc' = "loop"
    /\ oFn' = fn
    /\ oMethod' = m
    /\ oArgs' = a
    /\ oSources' = Sources(oCfg)
    /\ oIdx' = 1
    /\ oInvoked' = <<>>
    /\ oPrimary' = "pending"
    /\ oReturned' = <<>>
    /\ oLastError' = NoError
    /\ oResult' = NoneVal
    /\ oRaised' = FALSE
    /\ UNCHANGED oCfg

NotePrimary(what) == IF oIdx = 1 THEN what ELSE oPrimary

\* if not self._is_source_enabled(source): continue
OrchSkip ==
    /\ oPc = "loop"
    /\ oIdx <= Len(oSources)
    /\ ~IsSourceEnabled(oCfg, oSources[oIdx])
    /\ oIdx' = oIdx + 1
    /\ oPrimary' = NotePrimary("skipped")
    /\ UNCHANGED <<oCfg, oPc, oFn, oMethod, oArgs, oSources, oInvoked,
                   oReturned, oLastError, oResult, oRaised>>

\* an exception raised at `stage` of the iteration on source src
OrchException(src, stage) ==
    IF Catches(oFn, stage)
    THEN /\ oLastError' = IF oFn = "try" THEN src ELSE oLastError
         /\ oIdx' = IF oFn = "try" /\ ~(oCfg.auto_fallback /\ src = oCfg.primary)
                    THEN Len(oSources) + 1    \* break
                    ELSE oIdx + 1             \* continue
         /\ UNCHANGED <<oPc, oResult, oRaised>>
    ELSE /\ oRaised' = TRUE
         /\ oPc' = "done"
         /\ UNCHANGED <<oLastError, oIdx, oResult>>

\* one iteration of the for loop on an enabled source
OrchAttempt(out) ==
    /\ oPc = "loop"
    /\ oIdx <= Len(oSources)
    /\ IsSourceEnabled(oCfg, oSources[oIdx])
    /\ out = "empty" => ReturnsList(oMethod)
    /\ LET src == oSources[oIdx]
           call == [src |-> src, method |-> oMethod, args |-> oArgs, pos |-> oIdx]
           ret == IF out = "none" THEN NoneVal
                  ELSE IF out = "empty" THEN EmptyList
                  ELSE Data(src, oMethod, oArgs)
       IN
       IF out = "lookup_raise"
       THEN \* self._get_service(source) raises
            /\ OrchException(src, "lookup")
            /\ oPrimary' = NotePrimary("raised")
            /\ UNCHANGED <<oInvoked, oReturned>>
       ELSE IF ~HasMethod(src, oMethod)
       THEN \* service.get_market_snapshot: AttributeError
            /\ OrchException(src, "attr")
            /\ oPrimary' = NotePrimary("raised")
            /\ UNCHANGED <<oInvoked, oReturned>>
       ELSE IF out = "raise"
       THEN /\ oInvoked' = Append(oInvoked, call)
            /\ OrchException(src, "call")
            /\ oPrimary' = NotePrimary("raised")
            /\ UNCHANGED oReturned
       ELSE /\ oInvoked' = Append(oInvoked, call)
            /\ oReturned' = Append(oReturned, [src |-> src, pos |-> oIdx, ret |-> ret])
            /\ oPrimary' = NotePrimary(out)
            /\ IF Accepts(oFn, ret)
               THEN /\ oResult' = ret
                    /\ oPc' = "done"
                    /\ UNCHANGED oIdx
               ELSE /\ oIdx' = oIdx + 1
                    /\ UNCHANGED <<oResult, oPc>>
            /\ UNCHANGED <<oLastError, oRaised>>
    /\ UNCHANGED <<oCfg, oFn, oMethod, oArgs, oSources>>

\* the loop is over: return None
OrchFinish ==
    /\ oPc = "loop"
    /\ oIdx > Len(oSources)
    /\ oPc' = "done"
    /\ oResult' = NoneVal
    /\ UNCHANGED <<oCfg, oFn, oMethod, oArgs, oSources, oIdx, oInvoked,
                   oPrimary, oReturned, oLastError, oRaised>>

\* the caller has its answer; the service is ready for the next call
OrchReset ==
    /\ oPc = "done"
    /\ oPc' = "idle"
    /\ UNCHANGED <<oCfg, oFn, oMethod, oArgs, oSources, oIdx, oInvoked,
                   oPrimary, oReturned, oLastError, oResult, oRaised>>

(***************************************************************************)
(* OI history cache: load_oi_cache, save_oi_cache and compute_delta_oi, as  *)
(* called by FutuService.calculate_positioning_score                       *)
(***************************************************************************)
PTasks == 1..NumPosTasks
OIValues == {1000, 1200}

\* strftime('%Y-%m-%d'): zero-padded fields, most significant first; the
\* model's calendar has months of DaysPerMonth days
DateStr(d) == <<d \div DaysPerMonth, (d % DaysPerMonth) + 1>>

\* the day a date string denotes
DayOf(ds) == ds[1] * DaysPerMonth + ds[2] - 1

StrGT(a, b) == a[1] > b[1] \/ (a[1] = b[1] /\ a[2] > b[2])
\* `date >= cutoff` on strings: lexicographic comparison
StrGE(a, b) == a[1] > b[1] \/ (a[1] = b[1] /\ a[2] >= b[2])

NoDelta == [has |-> FALSE, delta |-> 0]
NoRet == [cur |-> 0, has |-> FALSE, delta |-> 0]
EmptyDict == [x \in {} |-> 0]

LookbackStartToday == 1 - 1
\* range(1, 8): the first value of days_ago
LookbackStart == 1

LookbackEndShort == 7 - 1
\* range(1, 8): the last value of days_ago
LookbackEnd == 7

\* timedelta(days=7) of the cutoff
RetentionDays == 7

RECURSIVE FindYesterday(_, _, _)
\* for days_ago in range(1, 8): if past_date in symbol_cache: ...; break
FindYesterday(symbol_cache, day, days_ago) ==
    IF days_ago > LookbackEnd THEN NoDelta
    ELSE IF DateStr(day - days_ago) \in DOMAIN symbol_cache
         THEN [has |-> TRUE, delta |-> symbol_cache[DateStr(day - days_ago)]]
         ELSE FindYesterday(symbol_cache, day, days_ago + 1)

\* cache.get(symbol, {})
GetSymbolCache(cache, symbol) ==
    IF symbol \in DOMAIN cache THEN cache[symbol] ELSE EmptyDict

\* cache[symbol][today] = current_oi, then cache[symbol] keeps the dates >= cutoff
UpdateAndPrune(cache, symbol, day, current_oi) ==
    LET with == [ds \in DOMAIN GetSymbolCache(cache, symbol) \cup {DateStr(day)} |->
                    IF ds = DateStr(day) THEN current_oi ELSE cache[symbol][ds]]
        kept == {ds \in DOMAIN with : StrGE(ds, DateStr(day - RetentionDays))}
    IN [s \in DOMAIN cache \cup {symbol} |->
           IF s = symbol THEN [ds \in kept |-> with[ds]] ELSE cache[s]]

YieldsEverywhere(pc) == TRUE
\* the positions at which a task is suspended (await) or not running, so
\* that the event loop may run another task: calculate_positioning_score
\* awaits get_option_chain only; compute_delta_oi contains no await
Yields(pc) == pc \in {"idle", "chain", "done"}

CanRun(t) == running = NoTask \/ running = t

\* the task the loop is bound to after t's step to position pc
Holder(t, pc) == IF Yields(pc) THEN NoTask ELSE t

\* calculate_positioning_score(symbol) is called and awaits get_option_chain
PosStart(t, sym) ==
    /\ CanRun(t)
    /\ ppc[t] = "idle"
    /\ ppc' = [ppc EXCEPT ![t] = "chain"]
    /\ pSym' = [pSym EXCEPT ![t] = sym]
    /\ running' = Holder(t, "chain")
    /\ UNCHANGED <<today, cacheFile, pCur, pLocal, pSeen, pDay, pRet, pOverlap,
                   streak, lastWrite>>

\* get_option_chain returned nothing: `if not options: return None`
PosNoOptions(t) ==
    /\ CanRun(t)
    /\ ppc[t] = "chain"
    /\ ppc' = [ppc EXCEPT ![t] = "done"]
    /\ pRet' = [pRet EXCEPT ![t] = NoRet]
    /\ running' = Holder(t, "done")
    /\ UNCHANGED <<today, cacheFile, pSym, pCur, pLocal, pSeen, pDay, pOverlap,
                   numCalls, streak, lastWrite>>

\* get_option_chain returned contracts whose open interest sums to oi;
\* compute_delta_oi(symbol, total_oi) starts: cache = load_oi_cache(),
\* today = ..., symbol_cache = cache.get(symbol, {})
PosLoad(t, oi) ==
    /\ CanRun(t)
    /\ ppc[t] = "chain"
    /\ ppc' = [ppc EXCEPT ![t] = "loaded"]
    /\ pCur' = [pCur EXCEPT ![t] = oi]
    /\ pLocal' = [pLocal EXCEPT ![t] = cacheFile]
    /\ pSeen' = [pSeen EXCEPT ![t] = GetSymbolCache(cacheFile, pSym[t])]
    /\ pDay' = [pDay EXCEPT ![t] = today]
    /\ pOverlap' = [pOverlap EXCEPT ![t] = \E u \in PTasks \ {t} : ppc[u] = "chain"]
    /\ running' = Holder(t, "loaded")
    /\ UNCHANGED <<today, cacheFile, pSym, pRet, numCalls, streak, lastWrite>>

\* the look-back loop, the delta, the update of today's entry and the pruning
PosUpdate(t) ==
    /\ CanRun(t)
    /\ ppc[t] = "loaded"
    /\ LET y == FindYesterday(pSeen[t], pDay[t], LookbackStart) IN
       pRet' = [pRet EXCEPT ![t] = [cur |-> pCur[t], has |-> y.has,
                                    delta |-> IF y.has THEN pCur[t] - y.delta ELSE 0]]
    /\ pLocal' = [pLocal EXCEPT ![t] = UpdateAndPrune(pLocal[t], pSym[t], pDay[t], pCur[t])]
    /\ ppc' = [ppc EXCEPT ![t] = "updated"]
    /\ running' = Holder(t, "updated")
    /\ UNCHANGED <<today, cacheFile, pSym, pCur, pSeen, pDay, pOverlap, numCalls,
                   streak, lastWrite>>

\* save_oi_cache(cache); return (current_oi, delta_oi)
PosSave(t) ==
    /\ CanRun(t)
    /\ ppc[t] = "updated"
    /\ cacheFile' = pLocal[t]
    /\ lastWrite' = pDay[t]
    /\ streak' = [streak EXCEPT ![pSym[t]] =
                    IF DateStr(pDay[t]) \in DOMAIN pSeen[t] THEN @
                    ELSE IF DateStr(pDay[t] - 1) \in DOMAIN pSeen[t] THEN @ + 1
                    ELSE 1]
    /\ ppc' = [ppc EXCEPT ![t] = "done"]
    /\ running' = Holder(t, "done")
    /\ UNCHANGED <<today, pSym, pCur, pLocal, pSeen, pDay, pRet, pOverlap, numCalls>>

\* the result has been handed to the caller
PosReturn(t) ==
    /\ CanRun(t)
    /\ ppc[t] = "done"
    /\ ppc' = [ppc EXCEPT ![t] = "idle"]
    /\ pSym' = [pSym EXCEPT ![t] = "SPY"]
    /\ pCur' = [pCur EXCEPT ![t] = 0]
    /\ pLocal' = [pLocal EXCEPT ![t] = EmptyDict]
    /\ pSeen' = [pSeen EXCEPT ![t] = EmptyDict]
    /\ pDay' = [pDay EXCEPT ![t] = 0]
    /\ pRet' = [pRet EXCEPT ![t] = NoRet]
    /\ pOverlap' = [pOverlap EXCEPT ![t] = FALSE]
    /\ running' = Holder(t, "idle")
    /\ UNCHANGED <<today, cacheFile, numCalls, streak, lastWrite>>

\* midnight passes while no task is executing
NextDay ==
    /\ running = NoTask
    /\ today' = today + 1
    /\ UNCHANGED <<cacheFile, running, ppc, pSym, pCur, pLocal, pSeen, pDay,
                   pRet, pOverlap, numCalls, streak, lastWrite>>

OIInit ==
    /\ today = 0
    /\ cacheFile = EmptyDict
    /\ running = NoTask
    /\ ppc = [t \in PTasks |-> "idle"]
    /\ pSym = [t \in PTasks |-> "SPY"]
    /\ pCur = [t \in PTasks |-> 0]
    /\ pLocal = [t \in PTasks |-> EmptyDict]
    /\ pSeen = [t \in PTasks |-> EmptyDict]
    /\ pDay = [t \in PTasks |-> 0]
    /\ pRet = [t \in PTasks |-> NoRet]
    /\ pOverlap = [t \in PTasks |-> FALSE]
    /\ numCalls = 0
    /\ streak = [s \in Symbols |-> 0]
    /\ lastWrite = -1

MaxIdemDay == 9          \* calendar days 0..MaxIdemDay of SpecIdem
MaxEntries == 2          \* entries of the symbol in the cache SpecIdem starts from

\* the caches compute_delta_oi leaves behind: every entry of a symbol is at
\* most 7 days older than its latest entry
StartCaches ==
    {c \in UNION {[{"SPY"} -> [{DateStr(d) : d \in S} -> OIValues]] :
                     S \in {T \in SUBSET (0..MaxIdemDay) : Cardinality(T) <= MaxEntries}} :
        \A a, b \in DOMAIN c["SPY"] : DayOf(a) >= DayOf(b) - RetentionDays}

\* a process started on some day with the cache file left by earlier runs
IdemInit ==
    /\ cacheFile \in StartCaches
    /\ today \in 0..MaxIdemDay
    /\ \A ds \in DOMAIN cacheFile["SPY"] : DayOf(ds) <= today
    /\ running = NoTask
    /\ ppc = [t \in PTasks |-> "idle"]
    /\ pSym = [t \in PTasks |-> "SPY"]
    /\ pCur = [t \in PTasks |-> 0]
    /\ pLocal = [t \in PTasks |-> EmptyDict]
    /\ pSeen = [t \in PTasks |-> EmptyDict]
    /\ pDay = [t \in PTasks |-> 0]
    /\ pRet = [t \in PTasks |-> NoRet]
    /\ pOverlap = [t \in PTasks |-> FALSE]
    /\ numCalls = 0
    /\ streak = [s \in Symbols |-> 0]
    /\ lastWrite = -1
    /\ iCalls = <<>>

IdemIdle == iCalls = <<>>

\* compute_delta_oi of task t returns: what it was called with, what it
\* returns and the cache file it leaves
IdemRecord(t) ==
    iCalls' = (IF iCalls = <<>> THEN <<>> ELSE <<iCalls[Len(iCalls)]>>)
                  \o <<[sym |-> pSym[t], day |-> pDay[t], cur |-> pCur[t],
                        ret |-> pRet[t], file |-> pLocal[t]]>>

(***************************************************************************)
(* FutuService.get_option_iv_data: the fetch cycle                         *)
(*                                                                         *)
(* One call of get_option_iv_data up to the point where the term points    *)
(* are selected (line 642).  The option chain is listed window by window,  *)
(* each window through _fetch_option_chain_with_retry, then the snapshots  *)
(* are fetched chunk by chunk.  A completed acquire() of a limiter is the  *)
(* timestamp it records (self.calls.append); what happens inside acquire() *)
(* is the RateLimiter section above.  Rows of a chain response are the     *)
(* rows that carry a code, an option type and an expiry date.              *)
(***************************************************************************)
MaxDaysAhead == 120      \* max_days
WindowDays == 30         \* window_days
ChunkSize == 400         \* chunk_size
MaxRetries == 2          \* max_retries, the default of the helper
CoolDown == 30           \* wait_time of the retry helper, in seconds
ChainPeriod == 30        \* period_seconds of self._chain_limiter

RET_OK == 0
RET_ERROR == -1

\* A text is the sequence of its fragments; "pinlv" stands for the Chinese
\* word for "frequency" the code looks for.
LowerFrag(f) ==
    CASE f = "Rate" -> "rate"
      [] f = "LIMIT" -> "limit"
      [] OTHER -> f

Lower(text) == [i \in DOMAIN text |-> LowerFrag(text[i])]

In(frag, text) == \E i \in DOMAIN text : text[i] = frag

ChainOk(n) == [ret |-> RET_OK, isStr |-> FALSE, text |-> <<>>, rows |-> n]

ChainError(txt) == [ret |-> RET_ERROR, isStr |-> TRUE, text |-> txt, rows |-> 0]

\* a failure whose data is not a string
ChainErrorNoText == [ret |-> RET_ERROR, isStr |-> FALSE, text |-> <<>>, rows |-> 0]

RowCounts == {0, 1, ChunkSize}

ErrorTexts == { <<"network", "error">>, <<"pinlv", "too-high">>,
                <<"Rate", "exceeded">>, <<"request", "LIMIT">> }

ChainResponses ==
    {ChainOk(n) : n \in RowCounts} \cup {ChainError(t) : t \in ErrorTexts}
        \cup {ChainErrorNoText}

NoResponse == ChainOk(0)

\* line 403 with every failure taken for a quota failure
HasRateSignatureAny(data) == TRUE

\* line 403
HasRateSignature(data) ==
    /\ data.isStr
    /\ \/ In("pinlv", data.text)
       \/ In("rate", Lower(data.text))
       \/ In("limit", Lower(data.text))

\* lines 403-404: the helper sleeps and calls again
ShouldRetry(data, attempt) == HasRateSignature(data) /\ attempt < MaxRetries

EndDate == MaxDaysAhead

\* line 571 without the min
WindowEndNoCap(ws) == ws + WindowDays

WindowEnd(ws) == IF ws + WindowDays < EndDate THEN ws + WindowDays ELSE EndDate

\* line 570 with the last window left out
MoreWindowsShort(ws) == ws + WindowDays <= EndDate

\* line 570
MoreWindows(ws) == ws <= EndDate

ReturnNone ==
    /\ fpc' = "returned"
    /\ fResult' = "none"

\* lines 583-605 with the loop left at the first window that adds nothing
AfterWindowStopAtEmpty(codes) ==
    /\ fCodes' = codes
    /\ fWindowStart' = WindowEnd(fWindowStart) + 1
    /\ IF MoreWindows(WindowEnd(fWindowStart) + 1) /\ codes # fCodes
       THEN fpc' = "acquire" /\ fResult' = fResult
       ELSE IF codes = 0
            THEN ReturnNone
            ELSE fpc' = "snapAcquire" /\ fResult' = fResult

\* the helper has returned (ret, data): lines 583-605, the loop test of
\* line 570 and, when the loop is over, lines 607-623
AfterWindow(codes) ==
    /\ fCodes' = codes
    /\ fWindowStart' = WindowEnd(fWindowStart) + 1
    /\ IF MoreWindows(WindowEnd(fWindowStart) + 1)
       THEN fpc' = "acquire" /\ fResult' = fResult
       ELSE IF codes = 0
            THEN ReturnNone
            ELSE fpc' = "snapAcquire" /\ fResult' = fResult

FetchInit ==
    /\ fpc = "idle"
    /\ fWindowStart = 0
    /\ fAttempt = 0
    /\ fRet = NoResponse
    /\ fWinCalls = 0
    /\ fSlept = 0
    /\ fCodes = 0
    /\ fIdx = 0
    /\ fSnapRows = 0
    /\ fChainCalls = 0
    /\ fChainStamps = 0
    /\ fSnapCalls = 0
    /\ fSnapStamps = 0
    /\ fResult = "pending"
    /\ fRaised = FALSE
    /\ fOkRows = 0
    /\ fFailed = 0
    /\ fBatched = 0
    /\ fWindows = <<>>

\* lines 554-568
FcStart(connected) ==
    /\ fpc = "idle"
    /\ IF connected
       THEN fpc' = "acquire" /\ fResult' = fResult
       ELSE ReturnNone
    /\ fWindowStart' = 0
    /\ UNCHANGED <<fAttempt, fRet, fWinCalls, fSlept, fCodes, fIdx, fSnapRows,
                   fChainCalls, fChainStamps, fSnapCalls, fSnapStamps>>
    /\ UNCHANGED <<fRaised, fOkRows, fFailed, fBatched, fWindows>>

\* line 574, and the entry of the helper (lines 388-390)
FcChainAcquire ==
    /\ fpc = "acquire"
    /\ fChainStamps' = fChainStamps + 1
    /\ fAttempt' = 0
    /\ fWinCalls' = 0
    /\ fSlept' = 0
    /\ fpc' = "call"
    /\ UNCHANGED <<fWindowStart, fRet, fCodes, fIdx, fSnapRows, fChainCalls,
                   fSnapCalls, fSnapStamps, fResult>>
    /\ fWindows' = Append(fWindows, <<fWindowStart, WindowEnd(fWindowStart)>>)
    /\ UNCHANGED <<fRaised, fOkRows, fFailed, fBatched>>

\* lines 391-411: one provider call of the helper and what it does with the
\* answer
FcChainCall(data) ==
    /\ fpc = "call"
    /\ fChainCalls' = fChainCalls + 1
    /\ fWinCalls' = fWinCalls + 1
    /\ fRet' = data
    /\ fSlept' = 0
    /\ IF data.ret = RET_OK
       THEN AfterWindow(fCodes + data.rows)
       ELSE IF ShouldRetry(data, fAttempt)
            THEN /\ fpc' = "cooldown"
                 /\ UNCHANGED <<fWindowStart, fCodes, fResult>>
            ELSE AfterWindow(fCodes)
    /\ UNCHANGED <<fAttempt, fIdx, fSnapRows, fChainStamps, fSnapCalls, fSnapStamps>>
    /\ fOkRows' = IF data.ret = RET_OK THEN fOkRows + data.rows ELSE fOkRows
    /\ fFailed' = IF data.ret # RET_OK /\ ~ShouldRetry(data, fAttempt)
                  THEN fFailed + 1 ELSE fFailed
    /\ UNCHANGED <<fRaised, fBatched, fWindows>>

\* lines 405-408
FcCoolDown ==
    /\ fpc = "cooldown"
    /\ fSlept' = CoolDown
    /\ fAttempt' = fAttempt + 1
    /\ fpc' = "call"
    /\ UNCHANGED <<fWindowStart, fRet, fWinCalls, fCodes, fIdx, fSnapRows,
                   fChainCalls, fChainStamps, fSnapCalls, fSnapStamps, fResult>>
    /\ UNCHANGED <<fRaised, fOkRows, fFailed, fBatched, fWindows>>

\* line 626
FcSnapAcquire ==
    /\ fpc = "snapAcquire"
    /\ fSnapStamps' = fSnapStamps + 1
    /\ fpc' = "snapCall"
    /\ UNCHANGED <<fWindowStart, fAttempt, fRet, fWinCalls, fSlept, fCodes, fIdx,
                   fSnapRows, fChainCalls, fChainStamps, fSnapCalls, fResult>>
    /\ UNCHANGED <<fRaised, fOkRows, fFailed, fBatched, fWindows>>

\* line 624 without the end of the list
BatchSizeFull(idx, codes) == ChunkSize

BatchSize(idx, codes) == IF idx + ChunkSize <= codes THEN ChunkSize ELSE codes - idx

\* lines 628-640: ok is ret == RET_OK, hasRows that the rows carry codes
FcSnapCall(ok, hasRows) ==
    /\ fpc = "snapCall"
    /\ fSnapCalls' = fSnapCalls + 1
    /\ fSnapRows' = IF ok /\ hasRows THEN fSnapRows + BatchSize(fIdx, fCodes)
                                     ELSE fSnapRows
    /\ fIdx' = fIdx + ChunkSize
    /\ IF fIdx + ChunkSize < fCodes
       THEN fpc' = "snapAcquire" /\ fResult' = fResult
       ELSE IF fSnapRows' = 0
            THEN ReturnNone
            ELSE fpc' = "returned" /\ fResult' = "select"
    /\ UNCHANGED <<fWindowStart, fAttempt, fRet, fWinCalls, fSlept, fCodes,
                   fChainCalls, fChainStamps, fSnapStamps>>
    /\ fBatched' = fBatched + BatchSize(fIdx, fCodes)
    /\ fFailed' = IF ok THEN fFailed ELSE fFailed + 1
    /\ UNCHANGED <<fRaised, fOkRows, fWindows>>

\* the provider call raises: the handler of lines 735-739 returns None
FcRaise ==
    /\ fpc \in {"call", "snapCall"}
    /\ IF fpc = "call"
       THEN /\ fChainCalls' = fChainCalls + 1
            /\ fWinCalls' = fWinCalls + 1
            /\ UNCHANGED fSnapCalls
       ELSE /\ fSnapCalls' = fSnapCalls + 1
            /\ UNCHANGED <<fChainCalls, fWinCalls>>
    /\ ReturnNone
    /\ UNCHANGED <<fWindowStart, fAttempt, fRet, fSlept, fCodes, fIdx, fSnapRows,
                   fChainStamps, fSnapStamps>>
    /\ fRaised' = TRUE
    /\ fBatched' = IF fpc = "snapCall" THEN fBatched + BatchSize(fIdx, fCodes) ELSE fBatched
    /\ UNCHANGED <<fOkRows, fFailed, fWindows>>

(***************************************************************************)
(* ATM selection of one expiry (get_option_iv_data, lines 664-685)         *)
(*                                                                         *)
(* A contract carries its row of snapshot_map: `has` is False when         *)
(* snapshot_map has no (or an empty) row for its code, delta and iv are    *)
(* what _get_snapshot_value returns for the delta and the IV keys.  IVs    *)
(* and deltas are counted in hundredths (0.25 is 25, 30.0 is 3000), so a   *)
(* percentage is counted in hundredths of a percent.                       *)
(***************************************************************************)
MaxContracts == 2        \* contracts of the expiry

Missing == -1            \* None

NoPrice == 0             \* underlying_price is None (or 0.0)

Strikes == {96, 100, 110}

Prices == {NoPrice, 100}

Deltas == {Missing, 30, 50}

RawIvs == {Missing, 0, 25, 3000}

PutStrikes == {100}

StrikesOf(type) == IF type = "CALL" THEN Strikes ELSE PutStrikes

Contracts ==
    UNION {[option_type : {type}, strike_price : StrikesOf(type), has : {TRUE},
            delta : Deltas, iv : RawIvs]
           \cup [option_type : {type}, strike_price : StrikesOf(type), has : {FALSE},
                 delta : {Missing}, iv : {Missing}] : type \in {"CALL", "PUT"}}

ContractLists == UNION {[1..n -> Contracts] : n \in 0..MaxContracts}

NormalizeThreshold == 150    \* 1.5

\* _normalize_iv
NormalizeIv(iv) == IF iv <= NormalizeThreshold THEN iv * 100 ELSE iv

AbsDiff(a, b) == IF a >= b THEN a - b ELSE b - a

\* `if iv:` and `and underlying_price`
Truthy(x) == x # Missing /\ x # 0

IsCall(c) == c.option_type = "CALL"

AtmDelta == 50           \* 0.5

\* _pick_atm_iv_by_delta taking the first CALL with a delta and an IV
PickAtmIvByDeltaFirst(cs) ==
    LET cand == {i \in DOMAIN cs : /\ IsCall(cs[i])
                                   /\ cs[i].has
                                   /\ cs[i].delta # Missing
                                   /\ cs[i].iv # Missing}
    IN  IF cand = {}
        THEN Missing
        ELSE LET first == CHOOSE i \in cand : \A j \in cand : i <= j
             IN  NormalizeIv(cs[first].iv)

\* _pick_atm_iv_by_delta: the first contract, in list order, of the CALLs
\* with a delta and an IV whose delta is nearest to 0.5
PickAtmIvByDelta(cs) ==
    LET cand == {i \in DOMAIN cs : /\ IsCall(cs[i])
                                   /\ cs[i].has
                                   /\ cs[i].delta # Missing
                                   /\ cs[i].iv # Missing}
        Diff(i) == AbsDiff(cs[i].delta, AtmDelta)
    IN  IF cand = {}
        THEN Missing
        ELSE LET best == CHOOSE i \in cand :
                            \A j \in cand : Diff(i) < Diff(j) \/ (Diff(i) = Diff(j) /\ i <= j)
             IN  NormalizeIv(cs[best].iv)

\* line 676: abs(strike - underlying_price) / underlying_price < 0.05
NearPrice(strike, price) == 100 * AbsDiff(strike, price) < 5 * price

\* lines 669-681: the first CALL, in list order, with a snapshot row, a
\* strike within 5% of the price and a non-zero IV
PickByStrike(cs, price) ==
    LET cand == {i \in DOMAIN cs : /\ IsCall(cs[i])
                                   /\ cs[i].has
                                   /\ NearPrice(cs[i].strike_price, price)
                                   /\ Truthy(cs[i].iv)}
    IN  IF cand = {}
        THEN Missing
        ELSE LET first == CHOOSE i \in cand : \A j \in cand : i <= j
             IN  NormalizeIv(cs[first].iv)

\* line 668
UsesFallback(cs, price) == PickAtmIvByDelta(cs) = Missing /\ Truthy(price)

\* lines 665-681
ChooseIv(cs, price) ==
    LET byDelta == PickAtmIvByDelta(cs)
    IN  IF byDelta = Missing /\ Truthy(price)
        THEN PickByStrike(cs, price)
        ELSE byDelta

AtmInit ==
    /\ aContracts \in ContractLists
    /\ aPrice \in Prices
    /\ apc = "input"
    /\ aChosen = Missing
    /\ aFallback = FALSE

AtmIdle ==
    /\ aContracts = <<>>
    /\ aPrice = NoPrice
    /\ apc = "input"
    /\ aChosen = Missing
    /\ aFallback = FALSE

\* lines 665-685: chosen_iv of the expiry; a TermPoint is appended when it
\* is not None
AtmSelect ==
    /\ apc = "input"
    /\ aChosen' = ChooseIv(aContracts, aPrice)
    /\ aFallback' = UsesFallback(aContracts, aPrice)
    /\ apc' = "done"
    /\ UNCHANGED <<aContracts, aPrice>>

(***************************************************************************)
(* Term structure: _variance_interpolation, _interpolate_iv and the end of *)
(* get_option_iv_data of both providers                                    *)
(*                                                                         *)
(* A TermPoint is <<dte, iv>>.  `expirations` is a dict keyed by expiry    *)
(* date and every key yields at most one point, so the points of one list  *)
(* have distinct dte.  Floating-point numbers are modelled as exact        *)
(* fractions num/den in lowest terms; the square root of line 191 is not   *)
(* evaluated: the value (var_t ** 0.5) * 100.0 is kept as the variance     *)
(* var_t it is the root of.                                                *)
(***************************************************************************)
MaxPoints == 3           \* length of dte_points

DTEs == {7, 30, 45, 90}

IVs == {0, 20, 22, 25}

Horizons == {7, 30, 60, 90}

Targets == Horizons \cup {5, 20, 100}

Distinct(ps) == \A i, j \in DOMAIN ps : i # j => ps[i][1] # ps[j][1]

PointLists ==
    {ps \in UNION {[1..n -> DTEs \X IVs] : n \in 0..MaxPoints} : Distinct(ps)}

Abs(a) == IF a < 0 THEN 0 - a ELSE a

RECURSIVE Gcd(_, _)
Gcd(a, b) == IF b = 0 THEN a ELSE Gcd(b, a % b)

\* the fraction n/d, d > 0, in lowest terms
Rat(n, d) ==
    LET g == Gcd(Abs(n), d)
    IN  [num |-> n \div g, den |-> d \div g]

RatAdd(a, b) ==
    LET g == Gcd(a.den, b.den)
    IN  Rat(a.num * (b.den \div g) + b.num * (a.den \div g), a.den * (b.den \div g))

RatSub(a, b) == RatAdd(a, [num |-> 0 - b.num, den |-> b.den])

RatMul(a, b) ==
    LET g1 == Gcd(Abs(a.num), b.den)
        g2 == Gcd(Abs(b.num), a.den)
    IN  Rat((a.num \div g1) * (b.num \div g2), (a.den \div g2) * (b.den \div g1))

RatLE(a, b) == a.num * b.den <= b.num * a.den

\* values of _interpolate_iv: None, the IV of a point, or
\* (var ** 0.5) * 100.0 for a variance var
NoIv == [kind |-> "none", num |-> 0, den |-> 1]

PointIv(iv) == [kind |-> "iv", num |-> iv, den |-> 1]

RootIv(var) == [kind |-> "root", num |-> var.num, den |-> var.den]

\* lines 183-184: (iv / 100.0) ** 2
VarOf(iv) == Rat(iv * iv, 100 * 100)

\* line 187 with the weight measured from the upper point
WeightFromUpper(d1, d2, target) == Rat(d2 - target, d2 - d1)

\* line 187
Weight(d1, d2, target) == Rat(target - d1, d2 - d1)

\* lines 177-191 with the interpolation started from the upper variance
VarianceInterpolationFromUpper(lower, upper, target) ==
    IF upper[1] = lower[1]
    THEN PointIv(lower[2])
    ELSE RootIv(RatAdd(VarOf(upper[2]),
                       RatMul(RatSub(VarOf(upper[2]), VarOf(lower[2])),
                              Weight(lower[1], upper[1], target))))

\* _variance_interpolation
VarianceInterpolation(lower, upper, target) ==
    IF upper[1] = lower[1]
    THEN PointIv(lower[2])
    ELSE RootIv(RatAdd(VarOf(lower[2]),
                       RatMul(RatSub(VarOf(upper[2]), VarOf(lower[2])),
                              Weight(lower[1], upper[1], target))))

\* the loop of lines 213-220 stops at the first point with dte >= target
\* (0: it runs to the end)
FirstAtOrAbove(points, target) ==
    LET at == {i \in DOMAIN points : points[i][1] >= target}
    IN  IF at = {} THEN 0 ELSE CHOOSE i \in at : \A j \in at : i <= j

\* lines 222-228 without the one-sided cases
BracketNoClamp(points, lo, up, target) ==
    IF lo # 0 /\ up # 0
    THEN VarianceInterpolation(points[lo], points[up], target)
    ELSE NoIv

\* lines 222-228; lo and up are the positions of lower and upper, 0 for None
Bracket(points, lo, up, target) ==
    IF lo # 0 /\ up # 0
    THEN VarianceInterpolation(points[lo], points[up], target)
    ELSE IF lo # 0
         THEN PointIv(points[lo][2])
         ELSE IF up # 0
              THEN PointIv(points[up][2])
              ELSE NoIv

\* _interpolate_iv without the test of line 214
InterpolateIvNoExact(points, target) ==
    IF Len(points) = 0
    THEN NoIv
    ELSE IF Len(points) = 1
         THEN PointIv(points[1][2])
         ELSE LET k == FirstAtOrAbove(points, target)
              IN  Bracket(points, IF k = 0 THEN Len(points) ELSE k - 1, k, target)

\* _interpolate_iv
InterpolateIv(points, target) ==
    IF Len(points) = 0
    THEN NoIv
    ELSE IF Len(points) = 1
         THEN PointIv(points[1][2])
         ELSE LET k == FirstAtOrAbove(points, target)
              IN  IF k # 0 /\ points[k][1] = target
                  THEN PointIv(points[k][2])
                  ELSE Bracket(points, IF k = 0 THEN Len(points) ELSE k - 1, k, target)

IsSorted(ps) == \A i, j \in DOMAIN ps : i < j => ps[i][1] <= ps[j][1]

\* dte_points.sort(key=lambda x: x[0]) and sorted(iv_by_dte.keys()): the
\* stable ascending order of the dte
SortByDte(ps) ==
    LET n == Len(ps)
        p == CHOOSE f \in [1..n -> 1..n] :
                 /\ \A i, j \in 1..n : i # j => f[i] # f[j]
                 /\ \A i, j \in 1..n :
                        i < j => \/ ps[f[i]][1] < ps[f[j]][1]
                                 \/ ps[f[i]][1] = ps[f[j]][1] /\ f[i] < f[j]
    IN  [i \in 1..n |-> ps[p[i]]]

MinPoints == 2

\* the test with one point accepted
TooFewPointsOne(n) == n < MinPoints - 1

\* futu_service.py line 703 and ibkr_service.py line 812
TooFewPoints(n) == n < MinPoints

\* a fraction as a value
RatIv(r) == [kind |-> "rat", num |-> r.num, den |-> r.den]

\* `iv30 and iv90`: neither None nor 0.0
IvTruthy(v) == v.kind # "none" /\ v.num # 0

NoSlope == [kind |-> "none", a |-> NoIv, b |-> NoIv]

\* iv30 - iv90 of two values
Diff(x, y) == [kind |-> "diff", a |-> x, b |-> y]

NoResult ==
    [avail |-> FALSE, by |-> "none", iv7 |-> NoIv, iv30 |-> NoIv, iv60 |-> NoIv,
     iv90 |-> NoIv, slope |-> NoSlope]

\* futu_service.py lines 700-733; formatting a None at line 722 raises and
\* the handler of line 735 returns None
FutuTermResult(points) ==
    LET pts == SortByDte(points)
        iv7 == InterpolateIv(pts, 7)
        iv30 == InterpolateIv(pts, 30)
        iv60 == InterpolateIv(pts, 60)
        iv90 == InterpolateIv(pts, 90)
    IN  IF TooFewPoints(Len(pts))
        THEN NoResult
        ELSE IF NoIv \in {iv7, iv30, iv60, iv90}
             THEN NoResult
             ELSE [avail |-> TRUE, by |-> "futu", iv7 |-> iv7, iv30 |-> iv30,
                   iv60 |-> iv60, iv90 |-> iv90,
                   slope |-> IF IvTruthy(iv30) /\ IvTruthy(iv90)
                             THEN Diff(iv30, iv90)
                             ELSE NoSlope]

\* ibkr_service.py lines 802-803: iv_by_dte holds the expiries whose
\* implied_volatility is neither None nor 0
IbkrPoints(points) == SelectSeq(points, LAMBDA p : p[2] # 0)

\* ibkr_service.py lines 820-829, sp being the (dtes, ivs) pairs in
\* ascending dte
IbkrInterpolate(sp, target) ==
    LET n == Len(sp)
    IN  IF target <= sp[1][1]
        THEN Rat(sp[1][2], 1)
        ELSE IF target >= sp[n][1]
             THEN Rat(sp[n][2], 1)
             ELSE LET in == {i \in 1..(n - 1) : sp[i][1] <= target /\ target <= sp[i + 1][1]}
                      i == CHOOSE i \in in : \A j \in in : i <= j
                  IN  RatAdd(Rat(sp[i][2], 1),
                             RatMul(Rat(target - sp[i][1], sp[i + 1][1] - sp[i][1]),
                                    Rat(sp[i + 1][2] - sp[i][2], 1)))

\* ibkr_service.py lines 812-846
IbkrTermResult(points) ==
    LET sp == SortByDte(IbkrPoints(points))
        iv30 == IbkrInterpolate(sp, 30)
        iv60 == IbkrInterpolate(sp, 60)
        iv90 == IbkrInterpolate(sp, 90)
        slope == RatSub(iv30, iv90)
    IN  IF TooFewPoints(Len(sp))
        THEN NoResult
        ELSE [avail |-> TRUE, by |-> "ibkr", iv7 |-> NoIv,
              iv30 |-> RatIv(RatMul(iv30, Rat(100, 1))),
              iv60 |-> RatIv(RatMul(iv60, Rat(100, 1))),
              iv90 |-> RatIv(RatMul(iv90, Rat(100, 1))),
              slope |-> [kind |-> "rat", a |-> RatIv(RatMul(slope, Rat(100, 1))),
                         b |-> NoIv]]

TermIdle ==
    /\ tPoints = <<>>
    /\ tpc = "input"
    /\ tOp = "none"
    /\ tTarget = 0
    /\ tArgs = <<0, 0>>
    /\ tOut = NoIv
    /\ tResult = NoResult

TermInit ==
    /\ tPoints \in PointLists
    /\ tpc = "input"
    /\ tOp = "none"
    /\ tTarget = 0
    /\ tArgs = <<0, 0>>
    /\ tOut = NoIv
    /\ tResult = NoResult

\* _interpolate_iv(points, target) on a sorted list
ApplyInterpolate(target) ==
    /\ tpc = "input"
    /\ IsSorted(tPoints)
    /\ tOut' = InterpolateIv(tPoints, target)
    /\ tTarget' = target
    /\ tOp' = "interpolate"
    /\ tpc' = "done"
    /\ UNCHANGED <<tPoints, tArgs, tResult>>

\* _variance_interpolation(lower, upper, target) on two points around target
ApplyVariance(i, j, target) ==
    /\ tpc = "input"
    /\ tPoints[i][1] < target
    /\ target < tPoints[j][1]
    /\ tOut' = VarianceInterpolation(tPoints[i], tPoints[j], target)
    /\ tTarget' = target
    /\ tArgs' = <<i, j>>
    /\ tOp' = "variance"
    /\ tpc' = "done"
    /\ UNCHANGED <<tPoints, tResult>>

\* the end of FutuService.get_option_iv_data
FutuIvResult ==
    /\ tpc = "input"
    /\ tResult' = FutuTermResult(tPoints)
    /\ tOp' = "futu"
    /\ tpc' = "done"
    /\ UNCHANGED <<tPoints, tTarget, tArgs, tOut>>

\* the end of IBKRService.get_option_iv_data, tPoints being the IV of every
\* expiry asked for
IbkrIvResult ==
    /\ tpc = "input"
    /\ tResult' = IbkrTermResult(tPoints)
    /\ tOp' = "ibkr"
    /\ tpc' = "done"
    /\ UNCHANGED <<tPoints, tTarget, tArgs, tOut>>

(***************************************************************************)
(* OI buckets of calculate_positioning_score (both providers)              *)
(*                                                                         *)
(* The loop over the contracts returned by get_option_chain.  An option    *)
(* carries the days to its expiry (BadDte: the expiry string does not      *)
(* parse), its open_interest (Missing: None or absent, BadOi: not a        *)
(* number) and its type.  What compute_delta_oi does with total_oi is the  *)
(* OI history cache section.                                               *)
(***************************************************************************)
MaxOptions == 2          \* contracts returned by get_option_chain

BadDte == -99            \* strptime raises ValueError

BadOi == -2              \* adding it to a sum raises TypeError

OptionDtes == {-1, 0, 7, 8, 30, 31, 90, 91, BadDte}

OptionOis == {Missing, 5, BadOi}

Options == [dte : OptionDtes, oi : OptionOis, option_type : {"CALL", "PUT"}]

OptionLists == UNION {[1..n -> Options] : n \in 0..MaxOptions}

RECURSIVE SumSeq(_)
SumSeq(xs) == IF xs = <<>> THEN 0 ELSE Head(xs) + SumSeq(Tail(xs))

\* opt.get("open_interest", 0) or 0
OiOf(o) == IF o.oi = Missing THEN 0 ELSE o.oi

\* lines 777-787 with the first bucket one day longer
BucketOfShifted(dte) ==
    IF 0 <= dte /\ dte <= 8 THEN 1
    ELSE IF 9 <= dte /\ dte <= 30 THEN 2
    ELSE IF 31 <= dte /\ dte <= 90 THEN 3
    ELSE 0

\* lines 777-787: 1 is 0-7 days, 2 is 8-30 days, 3 is 31-90 days, 0 is none
BucketOf(dte) ==
    IF 0 <= dte /\ dte <= 7 THEN 1
    ELSE IF 8 <= dte /\ dte <= 30 THEN 2
    ELSE IF 31 <= dte /\ dte <= 90 THEN 3
    ELSE 0

\* "CALL" in str(opt_type).upper()
SideOf(o) == IF o.option_type = "CALL" THEN "call" ELSE "put"

\* the sum delta_oi_<bucket>_<side> over the contracts of the list
BucketSum(opts, b, side) ==
    SumSeq([i \in DOMAIN opts |->
               IF BucketOf(opts[i].dte) = b /\ SideOf(opts[i]) = side
               THEN OiOf(opts[i]) ELSE 0])

BucketKeys == (1..3) \X {"call", "put"}

NoSums == [k \in BucketKeys |-> 0]

NoPositioning == [avail |-> FALSE, by |-> "none", sums |-> NoSums, total_oi |-> Missing]

Raises(o) == o.dte = BadDte \/ o.oi = BadOi

\* futu_service.py lines 752-813: one try block around the whole loop
FutuPositioning(opts) ==
    IF Len(opts) = 0
    THEN NoPositioning
    ELSE IF \E i \in DOMAIN opts : Raises(opts[i])
         THEN NoPositioning
         ELSE [avail |-> TRUE, by |-> "futu",
               sums |-> [k \in BucketKeys |-> BucketSum(opts, k[1], k[2])],
               total_oi |-> SumSeq([i \in DOMAIN opts |-> OiOf(opts[i])])]

\* ibkr_service.py lines 886-919: the contract is left out when strptime
\* raises, or when its bucket sum cannot take its open interest
IbkrSkips(o) == o.dte = BadDte \/ (o.oi = BadOi /\ BucketOf(o.dte) # 0)

\* ibkr_service.py lines 869-936: one try block per contract, no total_oi
IbkrPositioning(opts) ==
    IF Len(opts) = 0
    THEN NoPositioning
    ELSE [avail |-> TRUE, by |-> "ibkr",
          sums |-> [k \in BucketKeys |->
                       BucketSum(SelectSeq(opts, LAMBDA o : ~IbkrSkips(o)), k[1], k[2])],
          total_oi |-> Missing]

BucketIdle ==
    /\ bOptions = <<>>
    /\ bpc = "input"
    /\ bResult = NoPositioning

BucketInit ==
    /\ bOptions \in OptionLists
    /\ bpc = "input"
    /\ bResult = NoPositioning

\* FutuService.calculate_positioning_score up to line 792
FutuBuckets ==
    /\ bpc = "input"
    /\ bResult' = FutuPositioning(bOptions)
    /\ bpc' = "futu"
    /\ UNCHANGED bOptions

\* IBKRService.calculate_positioning_score
IbkrBuckets ==
    /\ bpc = "input"
    /\ bResult' = IbkrPositioning(bOptions)
    /\ bpc' = "ibkr"
    /\ UNCHANGED bOptions

(***************************************************************************)
(* The batch-update session (routers/data_trigger.py)                      *)
(*                                                                         *)
(* start_batch_update creates the session and queues batch_update_task;    *)
(* the task and the handler of POST /batch-update/{id}/cancel run on one   *)
(* event loop, so the handler runs only while the task is queued, awaits   *)
(* a fetch or the final sync, or is over.                                  *)
(***************************************************************************)
MaxSymbols == 3          \* len(request.symbols) is in 0..MaxSymbols
MaxSources == 2          \* len(request.sources) is in 0..MaxSources
MaxCancels == 2          \* calls of cancel_batch_update in one run

NotCancelled == -1

\* the test with the cancellation never seen
IsCancelledNever(status) == status = "cancelled" /\ status = "running"

\* lines 584, 594 and 769: session.status == "cancelled"
IsCancelled(status) == status = "cancelled"

\* start_batch_update has returned: the session is pending, the task queued
BatchInit ==
    /\ sStatus = "pending"
    /\ sTotal \in 0..MaxSymbols
    /\ sSources \in 0..MaxSources
    /\ sCompleted = 0
    /\ sErrors = 0
    /\ spc = "queued"
    /\ sIdx = 0
    /\ sSrc = 0
    /\ sFetched = {}
    /\ sLate = {}
    /\ sCancelIdx = NotCancelled
    /\ sCancelCalls = 0

BatchIdle ==
    /\ sStatus = "pending"
    /\ sTotal = 0
    /\ sSources = 0
    /\ sCompleted = 0
    /\ sErrors = 0
    /\ spc = "queued"
    /\ sIdx = 0
    /\ sSrc = 0
    /\ sFetched = {}
    /\ sLate = {}
    /\ sCancelIdx = NotCancelled
    /\ sCancelCalls = 0

\* batch_update_task up to the loop over the symbols
TaskBegin ==
    /\ spc = "queued"
    /\ sStatus' = "running"
    /\ sIdx' = 0
    /\ spc' = "symbol"
    /\ UNCHANGED <<sTotal, sSources, sCompleted, sErrors, sSrc, sFetched, sLate,
                   sCancelIdx, sCancelCalls>>

\* the head of an iteration of the loop over the symbols
SymbolTop ==
    /\ spc = "symbol"
    /\ IF sIdx = sTotal \/ IsCancelled(sStatus)
       THEN spc' = "finish" /\ UNCHANGED sSrc
       ELSE spc' = "source" /\ sSrc' = 0
    /\ UNCHANGED <<sStatus, sTotal, sSources, sCompleted, sErrors, sIdx, sFetched,
                   sLate, sCancelIdx, sCancelCalls>>

\* the head of an iteration of the loop over the sources: the task starts
\* fetch_ibkr_data or fetch_futu_data and awaits it
SourceTop ==
    /\ spc = "source"
    /\ IF sSrc = sSources \/ IsCancelled(sStatus)
       THEN spc' = "save" /\ UNCHANGED <<sFetched, sLate>>
       ELSE /\ spc' = "fetching"
            /\ sFetched' = sFetched \cup {sIdx}
            /\ sLate' = IF sCancelIdx # NotCancelled THEN sLate \cup {sIdx} ELSE sLate
    /\ UNCHANGED <<sStatus, sTotal, sSources, sCompleted, sErrors, sIdx, sSrc,
                   sCancelIdx, sCancelCalls>>

\* the fetch returns a result with or without success, or raises
FetchReturn(outcome) ==
    /\ spc = "fetching"
    /\ sErrors' = IF outcome = "ok" THEN sErrors ELSE sErrors + 1
    /\ sSrc' = sSrc + 1
    /\ spc' = "source"
    /\ UNCHANGED <<sStatus, sTotal, sSources, sCompleted, sIdx, sFetched, sLate,
                   sCancelIdx, sCancelCalls>>

\* what was fetched is saved (a failure of the save is caught) and the
\* symbol is counted
SaveAndCount ==
    /\ spc = "save"
    /\ sCompleted' = sIdx + 1
    /\ sIdx' = sIdx + 1
    /\ spc' = "symbol"
    /\ UNCHANGED <<sStatus, sTotal, sSources, sErrors, sSrc, sFetched, sLate,
                   sCancelIdx, sCancelCalls>>

\* after the loop; the task then awaits _sync_to_momentum_stocks
TaskFinish ==
    /\ spc = "finish"
    /\ sStatus' = IF IsCancelled(sStatus) THEN sStatus ELSE "completed"
    /\ spc' = "syncing"
    /\ UNCHANGED <<sTotal, sSources, sCompleted, sErrors, sIdx, sSrc, sFetched,
                   sLate, sCancelIdx, sCancelCalls>>

\* the sync returns or its exception is caught
SyncReturn ==
    /\ spc = "syncing"
    /\ spc' = "done"
    /\ UNCHANGED <<sStatus, sTotal, sSources, sCompleted, sErrors, sIdx, sSrc,
                   sFetched, sLate, sCancelIdx, sCancelCalls>>

\* the task is not on the CPU
TaskSuspended == spc \in {"queued", "fetching", "syncing", "done"}

\* POST /batch-update/{session_id}/cancel for the session
CancelBatchUpdate ==
    /\ TaskSuspended
    /\ sCancelCalls < MaxCancels
    /\ sCancelCalls' = sCancelCalls + 1
    /\ IF sStatus = "running"
       THEN sStatus' = "cancelled" /\ sCancelIdx' = sIdx
       ELSE UNCHANGED <<sStatus, sCancelIdx>>
    /\ UNCHANGED <<sTotal, sSources, sCompleted, sErrors, spc, sIdx, sSrc, sFetched,
                   sLate>>

IvIdle == FetchInit /\ AtmIdle /\ TermIdle /\ BucketIdle /\ IdemIdle /\ BatchIdle

(***************************************************************************)
(* Specifications                                                          *)
(***************************************************************************)
LimNext ==
    /\ \/ \E t \in LTasks : LAcquire(t)
       \/ \E t \in LTasks : LGranted(t)
       \/ \E t \in LTasks : LWake(t)
       \/ \E t \in LTasks : LReturn(t)
       \/ LTick
    /\ UNCHANGED <<orchVars, oiVars, ivVars>>

InitLimiter == LimInit /\ OrchIdle /\ OIInit /\ IvIdle

SpecLimiter == InitLimiter /\ [][LimNext]_vars

\* the event loop runs every task that is ready (a task inside acquire()
\* keeps awaiting), and time passes
FairSpecLimiter ==
    /\ InitLimiter /\ [][LimNext]_vars
    /\ \A t \in LTasks : WF_vars((LGranted(t) \/ LWake(t) \/ LReturn(t)) /\ UNCHANGED <<orchVars, oiVars, ivVars>>)
    /\ WF_vars(LTick /\ UNCHANGED <<orchVars, oiVars, ivVars>>)

OrchNext ==
    /\ \/ \E m \in Methods, a \in Symbols : OrchStart("try", m, a)
       \/ \E a \in Symbols : OrchStart("snapshot", "get_market_snapshot", a)
       \/ OrchSkip
       \/ \E out \in Outcomes : OrchAttempt(out)
       \/ OrchFinish
       \/ OrchReset
    /\ UNCHANGED <<limVars, oiVars, ivVars>>

InitOrch == OrchInit /\ LimIdle /\ OIInit /\ IvIdle

SpecOrch == InitOrch /\ [][OrchNext]_vars

\* a bounded number of calls, for any symbols, by concurrent tasks
CountedStart(t, sym) ==
    /\ numCalls < MaxPosCalls
    /\ numCalls' = numCalls + 1
    /\ PosStart(t, sym)

OINext ==
    /\ \/ \E t \in PTasks, sym \in Symbols : CountedStart(t, sym)
       \/ \E t \in PTasks : PosNoOptions(t)
       \/ \E t \in PTasks, oi \in OIValues : PosLoad(t, oi)
       \/ \E t \in PTasks : PosUpdate(t)
       \/ \E t \in PTasks : PosSave(t)
       \/ \E t \in PTasks : PosReturn(t)
       \/ today < MaxDay /\ NextDay
    /\ UNCHANGED <<limVars, orchVars, ivVars>>

InitOI == OIInit /\ LimIdle /\ OrchIdle /\ IvIdle

SpecOI == InitOI /\ [][OINext]_vars

\* one symbol fetched by one task, any number of times, day after day
DailyNext ==
    /\ \/ PosStart(1, "SPY") /\ UNCHANGED numCalls
       \/ PosNoOptions(1)
       \/ \E oi \in OIValues : PosLoad(1, oi)
       \/ PosUpdate(1)
       \/ PosSave(1)
       \/ PosReturn(1)
       \/ today < MaxStreakDay /\ NextDay
    /\ UNCHANGED <<limVars, orchVars, ivVars>>

SpecDaily == InitOI /\ [][DailyNext]_vars

\* one fetch cycle of get_option_iv_data, the provider answering anything
FetchNext ==
    /\ \/ \E connected \in BOOLEAN : FcStart(connected)
       \/ FcChainAcquire
       \/ \E data \in ChainResponses : FcChainCall(data)
       \/ FcCoolDown
       \/ FcSnapAcquire
       \/ \E ok \in BOOLEAN, hasRows \in BOOLEAN : FcSnapCall(ok, hasRows)
       \/ FcRaise
    /\ UNCHANGED <<limVars, orchVars, oiVars, atmVars, termVars, bucketVars, idemVars, batchVars>>

InitFetch == FetchInit /\ LimIdle /\ OrchIdle /\ OIInit /\ AtmIdle /\ TermIdle /\ BucketIdle /\ IdemIdle /\ BatchIdle

SpecFetch == InitFetch /\ [][FetchNext]_vars

\* the event loop keeps running the coroutine: every provider call, sleep
\* and acquire() of the cycle comes back
FairSpecFetch == InitFetch /\ [][FetchNext]_vars /\ WF_vars(FetchNext)

\* the ATM selection applied to any contracts of one expiry
AtmNext == AtmSelect /\ UNCHANGED <<limVars, orchVars, oiVars, fetchVars, termVars, bucketVars, idemVars, batchVars>>

InitAtm == AtmInit /\ LimIdle /\ OrchIdle /\ OIInit /\ FetchInit /\ TermIdle /\ BucketIdle /\ IdemIdle /\ BatchIdle

SpecAtm == InitAtm /\ [][AtmNext]_vars

\* the interpolation functions and the end of get_option_iv_data applied to
\* any list of term points
TermNext ==
    /\ \/ \E target \in Targets : ApplyInterpolate(target)
       \/ \E i \in DOMAIN tPoints, j \in DOMAIN tPoints, target \in Targets :
              ApplyVariance(i, j, target)
       \/ FutuIvResult
       \/ IbkrIvResult
    /\ UNCHANGED <<limVars, orchVars, oiVars, fetchVars, atmVars, bucketVars, idemVars, batchVars>>

InitTerm == TermInit /\ LimIdle /\ OrchIdle /\ OIInit /\ FetchInit /\ AtmIdle /\ BucketIdle /\ IdemIdle /\ BatchIdle

SpecTerm == InitTerm /\ [][TermNext]_vars

\* the bucket loop of either provider applied to any list of contracts
BucketNext ==
    /\ \/ FutuBuckets
       \/ IbkrBuckets
    /\ UNCHANGED <<limVars, orchVars, oiVars, fetchVars, atmVars, termVars, idemVars, batchVars>>

InitBuckets == BucketInit /\ LimIdle /\ OrchIdle /\ OIInit /\ FetchInit /\ AtmIdle /\ TermIdle /\ IdemIdle /\ BatchIdle

SpecBuckets == InitBuckets /\ [][BucketNext]_vars

\* one task calling calculate_positioning_score again and again, the
\* cache file holding what earlier runs left
IdemNext ==
    /\ \/ /\ \/ CountedStart(1, "SPY")
             \/ PosNoOptions(1)
             \/ \E oi \in OIValues : PosLoad(1, oi)
             \/ PosUpdate(1)
             \/ PosReturn(1)
             \/ today < MaxIdemDay /\ NextDay
          /\ UNCHANGED iCalls
       \/ PosSave(1) /\ IdemRecord(1)
    /\ UNCHANGED <<limVars, orchVars, fetchVars, atmVars, termVars, bucketVars, batchVars>>

InitIdem ==
    IdemInit /\ LimIdle /\ OrchIdle /\ FetchInit /\ AtmIdle /\ TermIdle /\ BucketIdle
        /\ BatchIdle

SpecIdem == InitIdem /\ [][IdemNext]_vars

\* one session: its task and the cancel requests of its clients
BatchNext ==
    /\ \/ TaskBegin
       \/ SymbolTop
       \/ SourceTop
       \/ \E outcome \in {"ok", "failed", "raised"} : FetchReturn(outcome)
       \/ SaveAndCount
       \/ TaskFinish
       \/ SyncReturn
       \/ CancelBatchUpdate
    /\ UNCHANGED <<limVars, orchVars, oiVars, fetchVars, atmVars, termVars, bucketVars,
                   idemVars>>

InitBatch ==
    BatchInit /\ LimIdle /\ OrchIdle /\ OIInit /\ FetchInit /\ AtmIdle /\ TermIdle
        /\ BucketIdle /\ IdemIdle

SpecBatch == InitBatch /\ [][BatchNext]_vars

(***************************************************************************)
(* Properties of the RateLimiter                                           *)
(***************************************************************************)
\* number of recorded completions whose timestamp lies in the window of
\* PeriodL ticks whose youngest age is s
InWindow(s) == Cardinality({i \in 1..Len(hist) : s <= hist[i] /\ hist[i] < s + PeriodL})

\* C1: in every window of PeriodL ticks the number of recorded acquire()
\* completions is at most MaxCallsL, for both RateLimiter classes and with
\* several tasks sharing the instance.
C1_WindowBound == \A s \in 0..PeriodL : InWindow(s) <= MaxCallsL

\* more completions than one window admits have been recorded, the last one
\* by a task that had to wait for the window to free up
C1_Witness ==
    /\ Len(hist) > MaxCallsL
    /\ \E t \in LTasks : lpc[t] = "done" /\ sleepLeft[t] = 0 /\ slept[t]

\* C2: every task that calls acquire() and keeps awaiting eventually records
\* its call and returns, also when another task is suspended inside acquire().
C2_EveryAcquireReturns ==
    \A t \in LTasks : (lpc[t] # "idle") ~> (lpc[t] = "done")

(***************************************************************************)
(* Properties of the orchestrator                                          *)
(***************************************************************************)
\* the enabled flag of a provider as the configuration holds it
EnabledFlag(src) ==
    \/ src = "ibkr" /\ oCfg.ibkr_enabled
    \/ src = "futu" /\ oCfg.futu_enabled

NonEmpty(r) == r # NoneVal /\ r # EmptyList

\* positions of the non-empty results among the results the attempted
\* providers returned
NonEmptyReturns == {i \in 1..Len(oReturned) : NonEmpty(oReturned[i].ret)}

\* C3: _try_with_fallback returns the first non-empty result among the
\* attempted providers (primary, then fallback) and None exactly when no
\* attempted provider produced a non-empty result; an empty result is never
\* itself the outcome.
C3_FirstNonEmptyResult ==
    (oPc = "done" /\ oFn = "try") =>
        IF NonEmptyReturns = {}
        THEN oResult = NoneVal
        ELSE oResult = oReturned[CHOOSE i \in NonEmptyReturns :
                                    \A j \in NonEmptyReturns : i <= j].ret

\* what the last provider that returned has returned (None if none returned)
LastReturn == IF oReturned = <<>> THEN NoneVal ELSE oReturned[Len(oReturned)].ret

\* C4: no capability method is ever invoked on a provider whose enabled flag
\* is false; with the primary disabled, the fallback enabled and
\* auto_fallback true the primary is never invoked and the result is the
\* fallback's result (None when the fallback raised; get_market_snapshot
\* reports an empty fallback result as None).
C4_DisabledNeverInvoked ==
    /\ \A i \in 1..Len(oInvoked) : EnabledFlag(oInvoked[i].src)
    /\ (/\ oPc = "done"
        /\ ~EnabledFlag(oCfg.primary)
        /\ EnabledFlag(oCfg.fallback)
        /\ oCfg.auto_fallback)
       => /\ \A i \in 1..Len(oInvoked) : oInvoked[i].src = oCfg.fallback
          /\ \A i \in 1..Len(oReturned) : oReturned[i].src = oCfg.fallback
          /\ oResult = IF oFn = "snapshot" /\ LastReturn = EmptyList
                       THEN NoneVal ELSE LastReturn

\* the primary is disabled and the call was answered by the fallback
C4_Witness ==
    /\ oPc = "done"
    /\ ~EnabledFlag(oCfg.primary)
    /\ EnabledFlag(oCfg.fallback)
    /\ oCfg.auto_fallback
    /\ oFn = "try"
    /\ oResult = Data(oCfg.fallback, oMethod, oArgs)

\* invocations made for the second entry of `sources`
FallbackCalls == {i \in 1..Len(oInvoked) : oInvoked[i].pos = 2}

\* C5: within one call the fallback is invoked only if auto_fallback is true
\* and the primary was skipped as disabled, raised or returned empty or None;
\* it is invoked after the primary attempt, at most once and with the same
\* method and arguments; never when auto_fallback is false or the primary
\* returned data.
C5_FallbackDiscipline ==
    /\ Cardinality(FallbackCalls) <= 1
    /\ \A i \in FallbackCalls :
          /\ oCfg.auto_fallback
          /\ oPrimary \in {"skipped", "raised", "none", "empty"}
          /\ oInvoked[i].src = oCfg.fallback
          /\ oInvoked[i].method = oMethod
          /\ oInvoked[i].args = oArgs
          /\ \A j \in 1..Len(oInvoked) : oInvoked[j].pos = 1 => j < i
    /\ ~oCfg.auto_fallback => FallbackCalls = {}
    /\ oPrimary = "data" => FallbackCalls = {}

\* the primary was invoked and raised, then the fallback was invoked
C5_Witness ==
    /\ Len(oInvoked) = 2
    /\ oInvoked[1].pos = 1
    /\ oInvoked[2].pos = 2
    /\ oPrimary = "raised"

\* C6: no exception of a provider's method or of the provider lookup leaves
\* the orchestrator; every call ends with a result or None after at most one
\* iteration per source.
C6_NoExceptionEscapes ==
    /\ ~oRaised
    /\ oIdx <= Len(oSources) + 1
    /\ oPc = "done" =>
          \/ oResult = NoneVal
          \/ oResult = EmptyList
          \/ \E src \in SourceLabels : oResult = Data(src, oMethod, oArgs)

\* the lookup of the primary raised and the fallback's method raised too:
\* the caller got None
C6_Witness ==
    /\ oPc = "done"
    /\ oPrimary = "raised"
    /\ oInvoked # <<>>
    /\ oInvoked[1].pos = 2
    /\ oReturned = <<>>
    /\ oResult = NoneVal
    /\ ~oRaised

(***************************************************************************)
(* Properties of the OI history cache                                      *)
(***************************************************************************)
\* the task is between load_oi_cache and save_oi_cache
InRMW(t) == ppc[t] \in {"loaded", "updated"}

\* the task's compute_delta_oi has saved the cache and returned
Wrote(t) == ppc[t] = "done" /\ pCur[t] > 0

HasEntry(sym, day) ==
    sym \in DOMAIN cacheFile /\ DateStr(day) \in DOMAIN cacheFile[sym]

\* C7: the load / update / save sequence of compute_delta_oi is mutually
\* exclusive between the concurrent callers of the event loop, and no update
\* is lost: the saved cache holds today's entry of every call that has
\* written today.
C7_SerializedReadModifyWrite ==
    /\ \A t, u \in PTasks : t # u => ~(InRMW(t) /\ InRMW(u))
    /\ \A t \in PTasks : (Wrote(t) /\ pDay[t] = today) => HasEntry(pSym[t], today)

\* two calls for different symbols were in flight together, both have
\* written today, and the file holds both values
C7_Witness ==
    \E t, u \in PTasks :
        /\ t # u
        /\ Wrote(t) /\ Wrote(u)
        /\ pSym[t] # pSym[u]
        /\ pDay[t] = today /\ pDay[u] = today
        /\ pOverlap[t] \/ pOverlap[u]
        /\ HasEntry(pSym[t], today) /\ cacheFile[pSym[t]][DateStr(today)] = pCur[t]
        /\ HasEntry(pSym[u], today) /\ cacheFile[pSym[u]][DateStr(today)] = pCur[u]

\* the date strings of today and the n - 1 days before it
RecentDates(n) == {DateStr(today - k) : k \in 0..(n - 1)}

\* the symbol has been written on each of at least 10 consecutive days, the
\* last of them today
TenDaysWritten(sym) == streak[sym] >= 10 /\ HasEntry(sym, today)

\* C8 as stated: after writes on 10 consecutive calendar days the cache of
\* the symbol contains exactly the 7 most recent dates.
C8_SevenMostRecentDates ==
    \A sym \in Symbols :
        TenDaysWritten(sym) => DOMAIN cacheFile[sym] = RecentDates(7)

\* C8 amended: after writes on 10 consecutive calendar days the cache of the
\* symbol contains exactly the 8 most recent dates (today and the 7 days
\* before it).
C8_EightMostRecentDates ==
    \A sym \in Symbols :
        TenDaysWritten(sym) => DOMAIN cacheFile[sym] = RecentDates(8)

\* the tenth consecutive daily write of SPY has been saved
C8_Witness ==
    /\ TenDaysWritten("SPY")
    /\ ppc[1] = "done"
    /\ Cardinality(DOMAIN cacheFile["SPY"]) = 8

\* the numbers k in 1..7 such that the symbol had an entry k days before the
\* day of the call
PriorDays(t) == {k \in 1..7 : DateStr(pDay[t] - k) \in DOMAIN pSeen[t]}

C10_NoStaleEntryAnySymbol ==
    lastWrite >= 0 =>
        \A sym \in DOMAIN cacheFile : \A ds \in DOMAIN cacheFile[sym] :
            DayOf(ds) >= lastWrite - 7

(***************************************************************************)
(* Properties of the fetch cycle of get_option_iv_data                     *)
(***************************************************************************)
InChainStage == fpc \in {"acquire", "call", "cooldown"}

\* C11: within one fetch cycle no snapshot call is issued (nor its limiter
\* slot acquired) before the last chain-listing call of the cycle, retries
\* included, has returned: once the snapshot stage is entered every date
\* window up to today + 120 days has been listed and the cycle never goes
\* back to the chain stage.
C11_ChainBeforeSnapshot ==
    (fSnapCalls > 0 \/ fSnapStamps > 0 \/ fpc \in {"snapAcquire", "snapCall"}) =>
        /\ ~InChainStage
        /\ fWindowStart > MaxDaysAhead

\* all four windows listed, one of them after a retry, then a snapshot call
C11_Witness ==
    /\ fSnapCalls > 0
    /\ fChainCalls > fChainStamps
    /\ fChainStamps = 4
    /\ fResult = "select"

\* C19: for each capability the provider calls issued so far are at most
\* the timestamps its limiter has recorded, the calls re-issued by
\* _fetch_option_chain_with_retry included.
C19_CallsWithinStamps ==
    /\ fChainCalls <= fChainStamps
    /\ fSnapCalls <= fSnapStamps

\* the error text carries the quota/rate signature
QuotaSignature(data) ==
    /\ data.isStr
    /\ \E i \in DOMAIN data.text :
           data.text[i] \in {"pinlv", "rate", "Rate", "limit", "LIMIT"}

\* C20: the retry helper makes at most max_retries + 1 = 3 provider calls
\* for one window; it is about to call again, or cooling down, only after a
\* failure that carries the quota/rate signature (so a success and a failure
\* without the signature end the helper at once), and every call after the
\* first comes after a sleep of 30 seconds, one period of the chain limiter.
C20_RetryOnlyOnQuotaSignature ==
    /\ fWinCalls <= MaxRetries + 1
    /\ (fpc \in {"call", "cooldown"} /\ fWinCalls >= 1) =>
           /\ fRet.ret # RET_OK
           /\ QuotaSignature(fRet)
           /\ fWinCalls <= MaxRetries
    /\ (fpc = "call" /\ fWinCalls >= 1) =>
           /\ fSlept = 30
           /\ fSlept = ChainPeriod

\* three provider calls for one window, the third after two cool-downs
C20_Witness ==
    /\ fWinCalls = 3
    /\ fAttempt = 2
    /\ QuotaSignature(fRet)
    /\ fpc # "cooldown"
    /\ fResult # "none"

(***************************************************************************)
(* Properties of the ATM selection                                         *)
(***************************************************************************)
NoDeltas(cs) == \A i \in DOMAIN cs : cs[i].delta = Missing

\* the CALLs of the expiry whose strike is nearest to the price
NearestCalls(cs, price) ==
    {i \in DOMAIN cs :
        /\ IsCall(cs[i])
        /\ \A j \in DOMAIN cs :
               IsCall(cs[j]) =>
                   AbsDiff(cs[i].strike_price, price) <= AbsDiff(cs[j].strike_price, price)}

HasIv(c) == c.has /\ Truthy(c.iv)

\* C12: when no contract of the expiry has a delta and a reference price is
\* supplied, the chosen IV is the IV of the CALL whose strike is nearest to
\* the price (stated for the expiries where that CALL has an IV in the
\* snapshot map); with no delta and no reference price the expiry yields no
\* TermPoint.
C12_StrikeFallbackNearest ==
    (apc = "done" /\ NoDeltas(aContracts)) =>
        /\ (aPrice # NoPrice /\ \E i \in NearestCalls(aContracts, aPrice) : HasIv(aContracts[i])) =>
               \E i \in NearestCalls(aContracts, aPrice) :
                   /\ HasIv(aContracts[i])
                   /\ aChosen = NormalizeIv(aContracts[i].iv)
        /\ aPrice = NoPrice => aChosen = Missing

(***************************************************************************)
(* Properties of the term structure                                        *)
(***************************************************************************)
Interpolated == tpc = "done" /\ tOp = "interpolate"

AsRat(v) == [num |-> v.num, den |-> v.den]

\* var1 + (var2 - var1) * (target - d1) / (d2 - d1) for the variances
\* (iv / 100)^2 of two points
LinearVariance(p1, p2, target) ==
    RatAdd(Rat(p1[2] * p1[2], 10000),
           RatMul(Rat(p2[2] * p2[2] - p1[2] * p1[2], 10000),
                  Rat(target - p1[1], p2[1] - p1[1])))

\* v is within 0.005 of c / 100, c being a percentage in hundredths
NearPercent(v, c) ==
    LET sq == RatMul(Rat(10000, 1), AsRat(v))
    IN  /\ v.kind = "root"
        /\ (2 * c - 1) * (2 * c - 1) * sq.den <= 40000 * sq.num
        /\ 40000 * sq.num <= (2 * c + 1) * (2 * c + 1) * sq.den

ExamplePoints == << <<7, 20>>, <<30, 25>>, <<90, 22>> >>

\* C13: for a sorted list and a target strictly between two adjacent points
\* _interpolate_iv returns the IV whose variance is the linear interpolation
\* of the variances of exactly these two points; for [(7,20), (30,25),
\* (90,22)] and target 60 the variance is 0.05545 and the IV 23.55 to two
\* decimals.
C13_VarianceBetweenNeighbours ==
    Interpolated =>
        /\ \A i \in DOMAIN tPoints :
               (i < Len(tPoints) /\ tPoints[i][1] < tTarget /\ tTarget < tPoints[i + 1][1]) =>
                   tOut = RootIv(LinearVariance(tPoints[i], tPoints[i + 1], tTarget))
        /\ (tPoints = ExamplePoints /\ tTarget = 60) =>
               /\ AsRat(tOut) = Rat(5545, 100000)
               /\ NearPercent(tOut, 2355)

C13_Witness ==
    /\ Interpolated
    /\ tPoints = ExamplePoints
    /\ tTarget = 60
    /\ tOut = [kind |-> "root", num |-> 1109, den |-> 20000]

\* C14: for a sorted list of at least 2 points _interpolate_iv with a target
\* equal to the dte of a point returns the IV of that point as it is.
C14_ExactAtKnots ==
    (Interpolated /\ Len(tPoints) >= 2) =>
        \A i \in DOMAIN tPoints :
            tPoints[i][1] = tTarget => tOut = PointIv(tPoints[i][2])

\* the target is the last of three points, whose IV differs from the others
C14_Witness ==
    /\ Interpolated
    /\ tPoints = << <<7, 20>>, <<30, 25>>, <<90, 22>> >>
    /\ tTarget = 90
    /\ tOut = PointIv(22)

\* C15: for a sorted list of at least 2 points _interpolate_iv returns the IV
\* of the first point for a target below the smallest dte and the IV of the
\* last point for a target above the largest dte.
C15_Clamping ==
    (Interpolated /\ Len(tPoints) >= 2) =>
        /\ tTarget < tPoints[1][1] => tOut = PointIv(tPoints[1][2])
        /\ tTarget > tPoints[Len(tPoints)][1] => tOut = PointIv(tPoints[Len(tPoints)][2])

\* 90 days asked for, the longest expiry being 45 days away
C15_Witness ==
    /\ Interpolated
    /\ tPoints = << <<7, 20>>, <<30, 25>>, <<45, 22>> >>
    /\ tTarget = 90
    /\ tOut = PointIv(22)

\* C16: for two points with d1 < d2 and a target strictly between, the
\* variance computed by _variance_interpolation lies between the variances of
\* the two points.
C16_VarianceWithinInputs ==
    (tpc = "done" /\ tOp = "variance") =>
        LET v1 == Rat(tPoints[tArgs[1]][2] * tPoints[tArgs[1]][2], 10000)
            v2 == Rat(tPoints[tArgs[2]][2] * tPoints[tArgs[2]][2], 10000)
            vt == AsRat(tOut)
        IN  /\ tOut.kind = "root"
            /\ RatLE(v1, vt) \/ RatLE(v2, vt)
            /\ RatLE(vt, v1) \/ RatLE(vt, v2)

\* variance 0.05545 at 60 days, strictly between 0.0484 and 0.0625
C16_Witness ==
    /\ tpc = "done"
    /\ tOp = "variance"
    /\ tPoints[tArgs[1]] = <<30, 25>>
    /\ tPoints[tArgs[2]] = <<90, 22>>
    /\ tTarget = 60
    /\ AsRat(tOut) = Rat(5545, 100000)

\* the expiries that yield a TermPoint: all of dte_points for Futu, the
\* expiries with a non-zero IV for IBKR
TermPointCount ==
    IF tOp = "ibkr"
    THEN Cardinality({i \in DOMAIN tPoints : tPoints[i][2] # 0})
    ELSE Len(tPoints)

\* C17: get_option_iv_data of either provider returns None whenever fewer
\* than 2 expiries yield a TermPoint.
C17_NoResultBelowTwoPoints ==
    (tpc = "done" /\ tOp \in {"futu", "ibkr"} /\ TermPointCount < 2) =>
        ~tResult.avail

\* two expiries asked of IBKR, one of them without an IV
C17_Witness ==
    /\ tpc = "done"
    /\ tOp = "ibkr"
    /\ Len(tPoints) = 2
    /\ TermPointCount = 1
    /\ ~tResult.avail

\* C18: every available result of get_option_iv_data has slope equal to
\* iv30 - iv90 of the same result.
C18_SlopeIsDifference ==
    (tpc = "done" /\ tResult.avail) =>
        IF tResult.by = "futu"
        THEN tResult.slope = [kind |-> "diff", a |-> tResult.iv30, b |-> tResult.iv90]
        ELSE /\ tResult.slope.kind = "rat"
             /\ AsRat(tResult.slope.a) = RatSub(AsRat(tResult.iv30), AsRat(tResult.iv90))

(***************************************************************************)
(* More properties of the fetch cycle                                      *)
(***************************************************************************)
CeilDiv(n, k) == (n + k - 1) \div k

\* the call has returned without a refused connection and without an
\* exception of a provider call
CycleRanThrough == fpc = "returned" /\ ~fRaised /\ fChainStamps > 0

C22_SnapshotChunks ==
    /\ fSnapStamps = fSnapCalls + (IF fpc = "snapCall" THEN 1 ELSE 0)
    /\ fBatched <= 400 * fSnapCalls
    /\ fSnapCalls > 0 => fBatched > 400 * (fSnapCalls - 1)
    /\ ~fRaised => fBatched = (IF fIdx < fCodes THEN fIdx ELSE fCodes)
    /\ (CycleRanThrough /\ fCodes > 0) =>
           /\ fBatched = fCodes
           /\ fSnapCalls = CeilDiv(fCodes, 400)

\* 401 identifiers: a chunk of 400 and a chunk of 1
C22_Witness ==
    /\ CycleRanThrough
    /\ fCodes = 401
    /\ fBatched = 401
    /\ fSnapCalls = 2
    /\ fSnapStamps = 2

WindowLoopOver == fpc \notin {"idle", "acquire", "call", "cooldown"}

WindowsDisjoint ==
    /\ Len(fWindows) <= 4
    /\ \A i \in DOMAIN fWindows :
           /\ 0 <= fWindows[i][1]
           /\ fWindows[i][1] <= fWindows[i][2]
           /\ fWindows[i][2] <= 120
           /\ fWindows[i][2] - fWindows[i][1] + 1 <= 31
    /\ \A i, j \in DOMAIN fWindows : i < j => fWindows[i][2] < fWindows[j][1]

WindowsCover ==
    \A d \in 0..120 :
        Cardinality({i \in DOMAIN fWindows : fWindows[i][1] <= d /\ d <= fWindows[i][2]}) = 1

DeltaCalls(cs) ==
    {i \in DOMAIN cs : /\ cs[i].option_type = "CALL"
                       /\ cs[i].has
                       /\ cs[i].delta # Missing
                       /\ cs[i].iv # Missing}

\* C23: when some CALL of the expiry has both a delta and an IV, the chosen
\* IV is the normalized IV of one of these CALLs whose |delta - 0.5| is
\* minimal among them (never of a PUT or of a contract without delta or IV)
\* and the strike fallback is not used; _normalize_iv multiplies a value of
\* at most 1.5 by 100.
C23_AtmByDelta ==
    (apc = "done" /\ DeltaCalls(aContracts) # {}) =>
        /\ ~aFallback
        /\ \E i \in DeltaCalls(aContracts) :
               /\ \A j \in DeltaCalls(aContracts) :
                      AbsDiff(aContracts[i].delta, 50) <= AbsDiff(aContracts[j].delta, 50)
               /\ aChosen = (IF aContracts[i].iv <= 150
                             THEN 100 * aContracts[i].iv
                             ELSE aContracts[i].iv)

\* the CALL with delta 0.30 comes first, the CALL with delta 0.50 is chosen
\* and its IV of 0.25 is returned as 25 percent
C23_Witness ==
    /\ apc = "done"
    /\ Len(aContracts) = 2
    /\ aContracts[1].option_type = "CALL" /\ aContracts[1].delta = 30 /\ aContracts[1].iv = 3000
    /\ aContracts[2].option_type = "CALL" /\ aContracts[2].delta = 50 /\ aContracts[2].iv = 25
    /\ aPrice = 100
    /\ aChosen = 2500
    /\ ~aFallback

(***************************************************************************)
(* Properties of the OI buckets                                            *)
(***************************************************************************)
\* the ranges of days to expiry of the three buckets
BucketRange == << <<0, 7>>, <<8, 30>>, <<31, 90>> >>

\* a contract whose expiry parses and whose open interest is a number or
\* absent
Usable(o) == o.dte # -99 /\ o.oi # -2

\* the open interest of the usable contracts of the list in one bucket
ExpectedSum(opts, k) ==
    SumSeq([i \in DOMAIN opts |->
               IF /\ Usable(opts[i])
                  /\ opts[i].oi # -1
                  /\ BucketRange[k[1]][1] <= opts[i].dte
                  /\ opts[i].dte <= BucketRange[k[1]][2]
                  /\ (k[2] = "call") = (opts[i].option_type = "CALL")
               THEN opts[i].oi ELSE 0])

\* the open interest of the usable contracts with 0 to 90 days to expiry
ExpectedInRange(opts) ==
    SumSeq([i \in DOMAIN opts |->
               IF Usable(opts[i]) /\ opts[i].oi # -1 /\ 0 <= opts[i].dte /\ opts[i].dte <= 90
               THEN opts[i].oi ELSE 0])

SixSums(r) ==
    r.sums[<<1, "call">>] + r.sums[<<1, "put">>] + r.sums[<<2, "call">>]
        + r.sums[<<2, "put">>] + r.sums[<<3, "call">>] + r.sums[<<3, "put">>]

\* C24: in every positioning result each of the six sums is the open
\* interest of the contracts of its range of days to expiry ([0,7], [8,30],
\* [31,90]) and of its side, so a contract counts in exactly one sum, and a
\* contract outside [0,90] days or without an OI value counts in none.
C24_OneBucketPerContract ==
    bResult.avail =>
        /\ \A k \in BucketKeys : bResult.sums[k] = ExpectedSum(bOptions, k)
        /\ SixSums(bResult) = ExpectedInRange(bOptions)

\* a call 7 days out and a put 8 days out, 5 contracts each
C24_Witness ==
    /\ bResult.avail
    /\ bOptions = << [dte |-> 7, oi |-> 5, option_type |-> "CALL"],
                     [dte |-> 8, oi |-> 5, option_type |-> "PUT"] >>
    /\ bResult.sums[<<1, "call">>] = 5
    /\ bResult.sums[<<2, "put">>] = 5
    /\ SixSums(bResult) = 10

\* C25: when the expiry date or the open interest of a single contract is
\* missing, not a number or does not parse, the contract is skipped and the
\* result is computed from the remaining contracts.
C25_BadContractSkipped ==
    (/\ bpc # "input"
     /\ \E i \in DOMAIN bOptions : ~Usable(bOptions[i])
     /\ \E i \in DOMAIN bOptions : Usable(bOptions[i])) =>
        /\ bResult.avail
        /\ \A k \in BucketKeys : bResult.sums[k] = ExpectedSum(bOptions, k)

\* C27: in every positioning result of FutuService total_oi is the sum of
\* the six bucket sums.
C27_TotalIsSumOfBuckets ==
    (bResult.avail /\ bResult.by = "futu") => bResult.total_oi = SixSums(bResult)

(***************************************************************************)
(* Properties of repeated compute_delta_oi calls                           *)
(***************************************************************************)
\* C28: two consecutive compute_delta_oi calls on the same calendar day for
\* the same symbol with the same OI return the same delta, and the second
\* leaves the cache file exactly as the first left it.
C28_IdempotentWithinDay ==
    (/\ Len(iCalls) = 2
     /\ iCalls[1].sym = iCalls[2].sym
     /\ iCalls[1].day = iCalls[2].day
     /\ iCalls[1].cur = iCalls[2].cur) =>
        /\ iCalls[2].ret = iCalls[1].ret
        /\ iCalls[2].file = iCalls[1].file

\* 1000 stored yesterday, 1200 observed twice today: +200 both times
C28_Witness ==
    /\ Len(iCalls) = 2
    /\ iCalls[1].sym = iCalls[2].sym
    /\ iCalls[1].day = iCalls[2].day
    /\ iCalls[1].cur = 1200
    /\ iCalls[2].ret = [cur |-> 1200, has |-> TRUE, delta |-> 200]
    /\ iCalls[1].ret = iCalls[2].ret
    /\ DateStr(iCalls[2].day) \in DOMAIN iCalls[2].file[iCalls[2].sym]

(***************************************************************************)
(* The two providers on the same points                                    *)
(***************************************************************************)
\* the square of a value of either provider as a fraction of 1, the IBKR
\* value being 100 times the linear interpolation of IVs given as fractions
\* of 100 (so that both providers are given the same volatilities)
SquareOf(v) ==
    IF v.kind = "root"
    THEN AsRat(v)
    ELSE IF v.kind = "iv"
         THEN VarOf(v.num)
         ELSE LET q == RatMul(AsRat(v), Rat(1, 100 * 100))
              IN  RatMul(q, q)

SameIv(a, b) == SquareOf(a) = SquareOf(b)

\* C29: for the same sorted points the Futu and the IBKR get_option_iv_data
\* compute the same iv30, iv60 and iv90.
C29_ProvidersAgree ==
    (/\ tpc = "done"
     /\ tOp = "futu"
     /\ IsSorted(tPoints)
     /\ tResult.avail
     /\ IbkrTermResult(tPoints).avail) =>
        /\ SameIv(tResult.iv30, IbkrTermResult(tPoints).iv30)
        /\ SameIv(tResult.iv60, IbkrTermResult(tPoints).iv60)
        /\ SameIv(tResult.iv90, IbkrTermResult(tPoints).iv90)

(***************************************************************************)
(* Properties of the batch-update session                                  *)
(***************************************************************************)
StatusMoves ==
    {<<"pending", "running">>, <<"running", "completed">>, <<"running", "cancelled">>}

\* a cancelled session: no fetch for a symbol after the one being worked on
\* at the cancellation, never completed
CancelledStops ==
    sCancelIdx # NotCancelled =>
        /\ sStatus = "cancelled"
        /\ \A i \in sLate : i <= sCancelIdx
        /\ \A i \in sFetched : i <= sCancelIdx

====
